---- MODULE Spec2Model ----
(***************************************************************************)
(* Receipt query engine: QueryEngine.query and the aggregation audit       *)
(* (src/src/query/query_engine.py), the rule based intent parser           *)
(* (src/src/query/query_parser.py), the retrieval wrapper                   *)
(* (src/src/vectorstore/vector_manager.py) and the chunk metadata written   *)
(* by src/src/chunking/receipt_chunker.py.                                  *)
(*                                                                          *)
(* Money is kept in integer cents, timestamps as small integers, and a     *)
(* query string as the set of phrases of the parser's patterns it holds.   *)
(***************************************************************************)
EXTENDS Integers, Sequences, FiniteSets, TLC

\* ------------------------------------------------------------------ bounds
\* hits one hybrid_search call returns in the engine specification
MaxHits == 2
\* evidence records handed to the audit in the audit specification
MaxEvidence == 3
\* phrases of one query
MaxPhrases == 2
\* phrases of one query of the temporal resolver
MaxClauses == 2

\* Python's None
None == "None"

\* ------------------------------------------------------- indexed receipts
\* two receipts of the sample corpus: totals 14.84 and 10.00
ReceiptIds == {"r1", "r2"}

ReceiptRow(rid) ==
    IF rid = "r1"
    THEN [receipt_id |-> "r1", merchant_name |-> "Target", total_amount |-> 1484,
          subtotal |-> 1400, tax_amount |-> 84, tip_amount |-> 0, has_tip |-> FALSE,
          item_price |-> 500, transaction_ts |-> 100]
    ELSE [receipt_id |-> "r2", merchant_name |-> "Walmart", total_amount |-> 1000,
          subtotal |-> 800, tax_amount |-> 0, tip_amount |-> 200, has_tip |-> TRUE,
          item_price |-> 300, transaction_ts |-> 200]

ChunkTypes == {"receipt_summary", "item_detail", "category_group", "payment_method"}

\* metadata of the chunk of view ct that chunk_receipt writes for receipt rid;
\* keys is the set of numeric keys the chunk carries (dict.get gives None for
\* the others), the fields outside keys hold 0 and are never read
ChunkMeta(rid, ct) ==
    LET r == ReceiptRow(rid)
        tipKey == IF r.has_tip THEN {"tip_amount"} ELSE {}
        base == [receipt_id |-> r.receipt_id, chunk_type |-> ct,
                 merchant_name |-> r.merchant_name,
                 transaction_ts |-> r.transaction_ts, keys |-> {},
                 total_amount |-> 0, subtotal |-> 0, tax_amount |-> 0,
                 tip_amount |-> 0, item_price |-> 0]
    IN CASE ct = "receipt_summary" ->
              [base EXCEPT !.total_amount = r.total_amount, !.subtotal = r.subtotal,
                           !.tax_amount = r.tax_amount, !.tip_amount = r.tip_amount,
                           !.keys = {"total_amount", "subtotal", "tax_amount"} \cup tipKey]
         [] ct = "item_detail" ->
              [base EXCEPT !.item_price = r.item_price, !.keys = {"item_price"}]
         [] ct = "category_group" ->
              \* total_amount of a category chunk is the category's own total
              [base EXCEPT !.total_amount = r.item_price, !.keys = {"total_amount"}]
         [] OTHER ->
              [base EXCEPT !.total_amount = r.total_amount, !.tip_amount = r.tip_amount,
                           !.keys = {"total_amount"} \cup tipKey]

ChunksOf(rids) == {ChunkMeta(rid, ct) : rid \in rids, ct \in ChunkTypes}

AllChunks == ChunksOf(ReceiptIds)

\* sequences over S of length at most n
RECURSIVE SeqsUpTo(_, _)
SeqsUpTo(S, n) ==
    IF n = 0 THEN {<<>>}
    ELSE LET shorter == SeqsUpTo(S, n - 1)
         IN shorter \cup {Append(s, x) : s \in shorter, x \in S}

\* ------------------------------------------------------------ query text
\* A query is the set of the phrases it holds, read in the order a sentence
\* would carry them ("how much ... at Target ... last week").  Each phrase
\* stands for the substrings the parser's patterns look for.
Phrases == {"how much", "show me", "at Target", "last week", "total", "average",
            "count", "tax", "groceries", "over $5", "find with warranty",
            "bought", "2024-02-30", "Target receipts"}

Queries == {q \in SUBSET Phrases : Cardinality(q) <= MaxPhrases}

\* _classify_query: the first pattern class, in dict order, one of whose
\* patterns matches
QueryTypeOrder == <<"temporal", "merchant", "category", "amount", "item_specific",
                    "aggregation">>

PatternMatches(q_type, q) ==
    CASE q_type = "temporal" ->
           \* how much.* (last|this|past) (week|month|year)
           {"how much", "last week"} \subseteq q
      [] q_type = "merchant" ->
           \* show me.* (from|at) .*   |   how much.* (at|from) .*
           \/ {"show me", "at Target"} \subseteq q
           \/ {"how much", "at Target"} \subseteq q
      [] q_type = "category" ->
           \* how much.* (...|groceries|...)   |   show me.* (...|groceries|...)
           \* list all.* (groceries|electronics)
           \/ {"how much", "groceries"} \subseteq q
           \/ {"show me", "groceries"} \subseteq q
           \/ {"list all", "groceries"} \subseteq q
      [] q_type = "amount" ->
           \* over \$\d+
           "over $5" \in q
      [] q_type = "item_specific" ->
           \* find.* with warranty
           "find with warranty" \in q
      [] q_type = "aggregation" ->
           \* how much.* (total|sum)   |   average   |   count
           \/ {"how much", "total"} \subseteq q
           \/ "average" \in q
           \/ "count" \in q
      [] OTHER -> FALSE

ClassifyQuery(q) ==
    LET hits == {i \in 1..Len(QueryTypeOrder) : PatternMatches(QueryTypeOrder[i], q)}
    IN IF hits = {} THEN "general"
       ELSE QueryTypeOrder[CHOOSE i \in hits : \A j \in hits : i <= j]

\* _extract_metric
ExtractMetric(q) ==
    IF "tax" \in q THEN "tax"
    ELSE IF q \cap {"with tip", "delivery fee or tip"} # {} THEN "tip"
    ELSE "total"

\* _extract_aggregation_type: sum keywords are looked for first
ExtractAggregationType(q) ==
    IF "total" \in q \/ "how much" \in q THEN "sum"
    ELSE IF "average" \in q THEN "average"
    ELSE IF "count" \in q THEN "count"
    ELSE None

\* _extract_categories
ExtractCategories(q) == IF "groceries" \in q THEN {"groceries"} ELSE {}

\* _extract_merchants: the preposition pattern captures 'Target' after 'at',
\* the known chain list gives 'target' wherever the word stands
ExtractMerchants(q) ==
    (IF "at Target" \in q THEN {"Target", "target"} ELSE {})
        \cup (IF "Target receipts" \in q THEN {"target"} ELSE {})
        \cup (IF "at Walmart" \in q THEN {"Walmart", "walmart"} ELSE {})

\* _extract_feature_flags: the flags set to True, and feature_any_of (empty
\* when the key is absent); the any-of branch returns before the flags of
\* tip, discount and delivery are set
ExtractFeatureFlags(q) ==
    LET warranty == IF "find with warranty" \in q THEN {"has_warranty"} ELSE {}
        returned == IF "refund" \in q THEN {"is_return"} ELSE {}
        tip == q \cap {"with tip", "delivery fee or tip"} # {}
    IN IF "delivery fee or tip" \in q
       THEN [flags |-> warranty \cup returned,
             feature_any_of |-> {"has_delivery_fee", "has_tip"}]
       ELSE [flags |-> warranty \cup returned
                         \cup (IF tip THEN {"has_tip"} ELSE {}),
             feature_any_of |-> {}]

\* _extract_amounts: every $ amount of the query, in order, goes to
\* min_amount when the query holds 'over', else to max_amount when it holds
\* 'under'; the last amount stays. An absent key is the empty sequence.
ExtractAmounts(q) ==
    LET values == (IF "over $5" \in q THEN <<5>> ELSE <<>>)
                      \o (IF "under $20" \in q THEN <<20>> ELSE <<>>)
        last == IF values = <<>> THEN <<>> ELSE <<values[Len(values)]>>
    IN IF "over $5" \in q THEN [min_amount |-> last, max_amount |-> <<>>]
       ELSE IF "under $20" \in q THEN [min_amount |-> <<>>, max_amount |-> last]
       ELSE [min_amount |-> <<>>, max_amount |-> <<>>]

\* _extract_dates: datetime(2024, 2, 30) raises ValueError; 'last week' gives a
\* dict of two ISO strings; anything else gives no date_range
DateRaises(q) == "2024-02-30" \in q

ExtractDateRange(q) == IF "last week" \in q THEN "dict" ELSE None

\* the basis is decided by the metric and the query type alone
ExtractSumBasisByType(q, metric, query_type, categories) ==
    IF metric = "tax" THEN "receipts"
    ELSE IF metric = "subtotal" THEN "receipts"
    ELSE IF query_type \in {"category", "item_specific"} THEN "items"
    ELSE "receipts"

\* _extract_sum_basis
ExtractSumBasis(q, metric, query_type, categories) ==
    IF metric = "tax" THEN "receipts"
    ELSE IF metric = "subtotal" THEN "receipts"
    ELSE IF query_type \in {"category", "item_specific"} THEN "items"
    ELSE IF categories # {} THEN "items"
    ELSE IF "bought" \in q THEN "items"
    ELSE "receipts"

\* what _get_llm_parsing may hand back: {} when the call fails, or a JSON
\* object whose merchants are absent or one name, whose date_range is absent,
\* a start/end dict, or a two element list
LLMReplies ==
    [aggregation : {None, "count"}, date_range : {None, "dict", "list"},
     merchants : {{}, {"CVS"}}]

NoParams == [query_type |-> None, metric |-> None, aggregation |-> None,
             sum_basis |-> None, date_range |-> None, merchants |-> {},
             categories |-> {}, flags |-> {}, feature_any_of |-> {},
             min_amount |-> <<>>, max_amount |-> <<>>]

\* the reply of the language model wins over what the rules extracted
ParseLLMFirst(q, llm) ==
    LET query_type == ClassifyQuery(q)
        metric == ExtractMetric(q)
        categories == ExtractCategories(q)
        features == ExtractFeatureFlags(q)
        amounts == ExtractAmounts(q)
    IN [query_type |-> query_type, metric |-> metric,
        aggregation |-> IF llm.aggregation # None THEN llm.aggregation
                        ELSE ExtractAggregationType(q),
        sum_basis |-> ExtractSumBasis(q, metric, query_type, categories),
        date_range |-> IF llm.date_range # None THEN llm.date_range
                       ELSE ExtractDateRange(q),
        merchants |-> IF llm.merchants # {} THEN llm.merchants ELSE ExtractMerchants(q),
        categories |-> categories, flags |-> features.flags,
        feature_any_of |-> features.feature_any_of,
        min_amount |-> amounts.min_amount, max_amount |-> amounts.max_amount]

\* QueryParser.parse for a query whose date is a valid calendar date
Parse(q, llm) ==
    LET query_type == ClassifyQuery(q)
        metric == ExtractMetric(q)
        date_range == ExtractDateRange(q)
        merchants == ExtractMerchants(q)
        categories == ExtractCategories(q)
        features == ExtractFeatureFlags(q)
        amounts == ExtractAmounts(q)
        agg == ExtractAggregationType(q)
        useLLM == merchants = {} \/ date_range = None
        merchants2 == IF useLLM /\ merchants = {} THEN llm.merchants ELSE merchants
        date_range2 == IF useLLM /\ date_range = None THEN llm.date_range
                       ELSE date_range
        agg2 == IF useLLM /\ agg = None THEN llm.aggregation ELSE agg
    IN [query_type |-> query_type, metric |-> metric, aggregation |-> agg2,
        sum_basis |-> ExtractSumBasis(q, metric, query_type, categories),
        date_range |-> date_range2, merchants |-> merchants2,
        categories |-> categories, flags |-> features.flags,
        feature_any_of |-> features.feature_any_of,
        min_amount |-> amounts.min_amount, max_amount |-> amounts.max_amount]

\* ------------------------------------------------------ aggregation audit
\* m.get(field) of a metadata record
HasKey(m, field) == field \in m.keys

FieldOf(m, field) ==
    CASE field = "total_amount" -> m.total_amount
      [] field = "subtotal" -> m.subtotal
      [] field = "tax_amount" -> m.tax_amount
      [] field = "tip_amount" -> m.tip_amount
      [] OTHER -> m.item_price

\* the metric -> field table, 'total_amount' by default
MetricField(metric) ==
    CASE metric = "tax" -> "tax_amount"
      [] metric = "tip" -> "tip_amount"
      [] metric = "subtotal" -> "subtotal"
      [] OTHER -> "total_amount"

\* unique_receipts: the metadata of the first record seen of each receipt_id,
\* in insertion order
RECURSIVE UniqueReceipts(_)
UniqueReceipts(results) ==
    IF results = <<>> THEN <<>>
    ELSE LET front == UniqueReceipts(SubSeq(results, 1, Len(results) - 1))
             meta == results[Len(results)]
         IN IF \E i \in 1..Len(front) : front[i].receipt_id = meta.receipt_id
            THEN front
            ELSE Append(front, meta)

\* items: every item_detail record, kept only when the basis is items
AuditItems(basis, results) ==
    IF basis = "items"
    THEN SelectSeq(results, LAMBDA m : m.chunk_type = "item_detail")
    ELSE <<>>

RECURSIVE MapField(_, _)
MapField(metas, field) ==
    IF metas = <<>> THEN <<>>
    ELSE <<FieldOf(Head(metas), field)>> \o MapField(Tail(metas), field)

\* values: one number per record that carries the field
AuditValues(basis, metric, results) ==
    IF basis = "receipts"
    THEN LET field == MetricField(metric)
         IN MapField(SelectSeq(UniqueReceipts(results),
                               LAMBDA m : HasKey(m, field)), field)
    ELSE MapField(SelectSeq(AuditItems(basis, results),
                            LAMBDA m : HasKey(m, "item_price")), "item_price")

RECURSIVE SumSeq(_)
SumSeq(values) == IF values = <<>> THEN 0 ELSE Head(values) + SumSeq(Tail(values))

\* The three shapes audit_result takes in query(): the {} it starts as, the
\* None the audit returns when it has nothing to compute, and the result
\* dict.  value is the fraction num/den (Python computes it as a float);
\* verified tells whether the dict has a 'verified' key set to true.
EmptyAudit == [kind |-> "empty", count |-> 0, num |-> 0, den |-> 1, verified |-> FALSE]

NoneAudit == [kind |-> "none", count |-> 0, num |-> 0, den |-> 1, verified |-> FALSE]

\* an average that is not divided by the count
ComputeAuditNoDivide(agg_type, values) ==
    LET count == Len(values)
        total == SumSeq(values)
    IN [kind |-> "dict", count |-> count,
        num |-> IF agg_type \in {"sum", "average"} THEN total ELSE count,
        den |-> 1, verified |-> FALSE]

\* step 3 of the audit: count, and value by aggregation type
ComputeAudit(agg_type, values) ==
    LET count == Len(values)
        total == SumSeq(values)
    IN [kind |-> "dict", count |-> count,
        num |-> CASE agg_type = "sum" -> total
                  [] agg_type = "average" -> total
                  [] OTHER -> count,
        den |-> IF agg_type = "average" THEN count ELSE 1,
        verified |-> FALSE]

\* _perform_aggregation_audit
PerformAggregationAudit(params, results) ==
    IF params.aggregation = None THEN NoneAudit
    ELSE LET values == AuditValues(params.sum_basis, params.metric, results)
         IN IF values = <<>> THEN NoneAudit
            ELSE ComputeAudit(params.aggregation, values)

\* ------------------------------------------------------- result assembly
\* _deduplicate_receipts: one summary per receipt_id, from the first record
\* seen of that receipt
RECURSIVE DeduplicateReceipts(_)
DeduplicateReceipts(results) ==
    IF results = <<>> THEN <<>>
    ELSE LET front == DeduplicateReceipts(SubSeq(results, 1, Len(results) - 1))
             meta == results[Len(results)]
         IN IF \E i \in 1..Len(front) : front[i].receipt_id = meta.receipt_id
            THEN front
            ELSE Append(front, [receipt_id |-> meta.receipt_id,
                                merchant_name |-> meta.merchant_name,
                                has_total |-> HasKey(meta, "total_amount"),
                                total_amount |-> meta.total_amount])

RECURSIVE ItemRows(_)
ItemRows(metas) ==
    IF metas = <<>> THEN <<>>
    ELSE <<[receipt_id |-> Head(metas).receipt_id,
            merchant_name |-> Head(metas).merchant_name,
            has_total |-> HasKey(Head(metas), "item_price"),
            total_amount |-> Head(metas).item_price]>> \o ItemRows(Tail(metas))

\* _extract_items: the item_detail records, or one row per receipt when no
\* item_detail record was retrieved
ExtractItems(results) ==
    LET items == ItemRows(SelectSeq(results, LAMBDA m : m.chunk_type = "item_detail"))
    IN IF items = <<>> THEN DeduplicateReceipts(results) ELSE items

\* QueryResult; confidence in hundredths
NoResult == [answer |-> None, receipts |-> <<>>, items |-> <<>>, confidence |-> 0,
             query_type |-> None, audit |-> EmptyAudit]

ErrorResult == [answer |-> "An internal error occurred while processing your request.",
                receipts |-> <<>>, items |-> <<>>, confidence |-> 0,
                query_type |-> "error", audit |-> EmptyAudit]

NotFoundResult(query_type) ==
    [answer |-> "I couldn't find any receipts matching those criteria.",
     receipts |-> <<>>, items |-> <<>>, confidence |-> 0,
     query_type |-> query_type, audit |-> EmptyAudit]

AssembledResult(answer, results, audit_result, query_type) ==
    [answer |-> answer, receipts |-> DeduplicateReceipts(results),
     items |-> ExtractItems(results),
     confidence |-> IF audit_result.verified THEN 85 ELSE 70,
     query_type |-> query_type, audit |-> audit_result]

\* ------------------------------------------------------ retrieval wrapper
\* get_latest_transaction_date keeps max_ts at 0 until a summary record with a
\* larger transaction_ts is seen, and returns None for 0
NoDate == 0

LatestTransactionDate(ok, idx) ==
    LET stamps == {c.transaction_ts : c \in {d \in idx : d.chunk_type = "receipt_summary"}}
                  \cup {NoDate}
    IN IF ok THEN CHOOSE m \in stamps : \A x \in stamps : x <= m
       ELSE NoDate

\* a wrapper that hands back what it had when the query raised
HybridSearchKeepsMatches(ok, matches) == matches

\* hybrid_search: the matches of the index query, [] when embedding or query raises
HybridSearch(ok, matches) == IF ok THEN matches ELSE <<>>

\* the match lists index.query may return: distinct records of the index
MatchLists(idx) ==
    {h \in SeqsUpTo(idx, MaxHits) : \A i, j \in 1..Len(h) : i # j => h[i] # h[j]}

\* 'if search_results is None' in place of 'if not search_results'
ZeroResultsIsNone(search_results) == FALSE

\* 'if not search_results'
ZeroResults(search_results) == Len(search_results) = 0

\* ----------------------------------------------------- exceptions, calls
\* what each step of query() raises when it fails
StepException(step) ==
    CASE step = "resolver" -> "AttributeError"
      [] step = "parse" -> "ValueError"
      [] step = "filters" -> "AttributeError"
      [] step = "generate" -> "TypeError"
      [] OTHER -> "AttributeError"

\* an except clause that names ValueError only
CaughtValueErrorOnly(exc) == exc = "ValueError"

\* 'except Exception' of query()
Caught(exc) == exc \in {"AttributeError", "ValueError", "TypeError", "KeyError"}

\* a keyword call binds when every keyword names a parameter and every
\* parameter without a default is given
Binds(keywords, parameters) == keywords \subseteq parameters /\ parameters \subseteq keywords

\* generate(self, query, results, query_params), called with
\* query=, context=, query_params=, audit_result=
GenerateParameters == {"query", "results", "query_params"}

GenerateKeywords == {"query", "context", "query_params", "audit_result"}

\* the wall clock the resolver takes as its reference date when it is built
Now == 300

\* -------------------------------------------------- merchant name forms
\* the merchant names of the model: str as the sequence of its characters
Spelling ==
    ("Target" :> <<"T", "a", "r", "g", "e", "t">>)
    @@ ("target" :> <<"t", "a", "r", "g", "e", "t">>)
    @@ ("Target Store" :> <<"T", "a", "r", "g", "e", "t", " ", "S", "t", "o", "r", "e">>)
    @@ ("Target Store Inc" :> <<"T", "a", "r", "g", "e", "t", " ", "S", "t", "o", "r", "e", " ", "I", "n", "c">>)
    @@ ("Walmart" :> <<"W", "a", "l", "m", "a", "r", "t">>)
    @@ ("WALMART" :> <<"W", "A", "L", "M", "A", "R", "T">>)
    @@ ("walmart" :> <<"w", "a", "l", "m", "a", "r", "t">>)
    @@ ("Trader Joe's" :> <<"T", "r", "a", "d", "e", "r", " ", "J", "o", "e", "'", "s">>)
    @@ ("Walmart Supercenter" :> <<"W", "a", "l", "m", "a", "r", "t", " ", "S", "u", "p", "e", "r", "c", "e", "n", "t", "e", "r">>)
    @@ ("Wal-Mart" :> <<"W", "a", "l", "-", "M", "a", "r", "t">>)
    @@ ("Store" :> <<"S", "t", "o", "r", "e">>)
    @@ ("Joe's Cafe" :> <<"J", "o", "e", "'", "s", " ", "C", "a", "f", "e">>)
    @@ (" Target  Store " :> <<" ", "T", "a", "r", "g", "e", "t", " ", " ", "S", "t", "o", "r", "e", " ">>)
    @@ ("Bookstore" :> <<"B", "o", "o", "k", "s", "t", "o", "r", "e">>)
    @@ ("Target Inc." :> <<"T", "a", "r", "g", "e", "t", " ", "I", "n", "c", ".">>)
    @@ ("CVS" :> <<"C", "V", "S">>)
    @@ ("CVS Pharmacy" :> <<"C", "V", "S", " ", "P", "h", "a", "r", "m", "a", "c", "y">>)
    @@ ("Coffee Shop" :> <<"C", "o", "f", "f", "e", "e", " ", "S", "h", "o", "p">>)
    @@ ("Starbucks" :> <<"S", "t", "a", "r", "b", "u", "c", "k", "s">>)
    @@ ("Starbux" :> <<"S", "t", "a", "r", "b", "u", "x">>)
    @@ ("Whole Foods" :> <<"W", "h", "o", "l", "e", " ", "F", "o", "o", "d", "s">>)
    @@ ("Whole Foods Market" :> <<"W", "h", "o", "l", "e", " ", "F", "o", "o", "d", "s", " ", "M", "a", "r", "k", "e", "t">>)
    @@ ("Acme Corp" :> <<"A", "c", "m", "e", " ", "C", "o", "r", "p">>)
    @@ ("Acme LLC" :> <<"A", "c", "m", "e", " ", "L", "L", "C">>)
    @@ ("Acme Ltd" :> <<"A", "c", "m", "e", " ", "L", "t", "d">>)
    @@ ("Acme Restaurant" :> <<"A", "c", "m", "e", " ", "R", "e", "s", "t", "a", "u", "r", "a", "n", "t">>)
    @@ ("Acme Coffee" :> <<"A", "c", "m", "e", " ", "C", "o", "f", "f", "e", "e">>)
    @@ ("&" :> <<"&">>)
    @@ ("" :> <<>>)
    @@ ("Find" :> <<"F", "i", "n", "d">>)
    @@ ("Foods" :> <<"F", "o", "o", "d", "s">>)
    @@ ("How" :> <<"H", "o", "w">>)
    @@ ("Receipts" :> <<"R", "e", "c", "e", "i", "p", "t", "s">>)
    @@ ("Total" :> <<"T", "o", "t", "a", "l">>)
    @@ ("Whole" :> <<"W", "h", "o", "l", "e">>)

\* str.lower(), one character
Lower(c) ==
    LET upper == <<"A", "B", "C", "D", "E", "F", "G", "H", "I", "J", "K", "L", "M",
                   "N", "O", "P", "Q", "R", "S", "T", "U", "V", "W", "X", "Y", "Z">>
        lower == <<"a", "b", "c", "d", "e", "f", "g", "h", "i", "j", "k", "l", "m",
                   "n", "o", "p", "q", "r", "s", "t", "u", "v", "w", "x", "y", "z">>
    IN IF \E i \in 1..Len(upper) : upper[i] = c
       THEN lower[CHOOSE i \in 1..Len(upper) : upper[i] = c]
       ELSE c

\* [a-z0-9\s]
Kept(c) ==
    c \in {"a", "b", "c", "d", "e", "f", "g", "h", "i", "j", "k", "l", "m",
           "n", "o", "p", "q", "r", "s", "t", "u", "v", "w", "x", "y", "z",
           "0", "1", "2", "3", "4", "5", "6", "7", "8", "9", " "}

\* re.sub(r'\s+', ' ', norm)
RECURSIVE CollapseSpaces(_)
CollapseSpaces(chars) ==
    IF Len(chars) < 2 THEN chars
    ELSE IF chars[1] = " " /\ chars[2] = " " THEN CollapseSpaces(Tail(chars))
    ELSE <<chars[1]>> \o CollapseSpaces(Tail(chars))

\* str.strip()
RECURSIVE Strip(_)
Strip(chars) ==
    IF chars = <<>> THEN chars
    ELSE IF chars[1] = " " THEN Strip(Tail(chars))
    ELSE IF chars[Len(chars)] = " " THEN Strip(SubSeq(chars, 1, Len(chars) - 1))
    ELSE chars

\* ''.join(chars)
RECURSIVE Join(_)
Join(chars) == IF chars = <<>> THEN "" ELSE chars[1] \o Join(Tail(chars))

\* merchant_indicators of the merchant matcher, a different list
MerchantIndicators ==
    {<<"s", "t", "o", "r", "e">>, <<"s", "h", "o", "p">>,
     <<"m", "a", "r", "k", "e", "t">>, <<"p", "h", "a", "r", "m", "a", "c", "y">>,
     <<"c", "a", "f", "e">>, <<"r", "e", "s", "t", "a", "u", "r", "a", "n", "t">>,
     <<"c", "o", "f", "f", "e", "e">>, <<"f", "o", "o", "d", "s">>,
     <<"g", "r", "o", "c", "e", "r", "y">>,
     <<"s", "u", "p", "e", "r", "c", "e", "n", "t", "e", "r">>,
     <<"d", "e", "p", "o", "t">>}

\* suffixes of normalize_merchant_name
Suffixes ==
    {<<"i", "n", "c">>, <<"c", "o", "r", "p">>, <<"l", "l", "c">>,
     <<"s", "t", "o", "r", "e">>, <<"s", "h", "o", "p">>,
     <<"m", "a", "r", "k", "e", "t">>, <<"p", "h", "a", "r", "m", "a", "c", "y">>,
     <<"c", "a", "f", "e">>, <<"c", "o", "f", "f", "e", "e">>,
     <<"r", "e", "s", "t", "a", "u", "r", "a", "n", "t">>, <<"l", "t", "d">>}

\* re.sub(r'\s+(?:restaurant|pharmacy|...)$', '', norm): one suffix, and only
\* one that whitespace comes before
StripSuffix(chars) ==
    LET EndsWith(tail) ==
            /\ Len(tail) <= Len(chars)
            /\ SubSeq(chars, Len(chars) - Len(tail) + 1, Len(chars)) = tail
    IN IF \E suffix \in Suffixes : EndsWith(<<" ">> \o suffix)
       THEN LET suffix == CHOOSE x \in Suffixes : EndsWith(<<" ">> \o x)
            IN SubSeq(chars, 1, Len(chars) - Len(suffix) - 1)
       ELSE chars

\* normalize_merchant_name, before the characters are joined
NormalizedCharacters(name) ==
    IF name = "" THEN <<>>
    ELSE LET lowered == [i \in 1..Len(Spelling[name]) |-> Lower(Spelling[name][i])]
             cleaned == Strip(CollapseSpaces(SelectSeq(lowered, Kept)))
         IN Strip(StripSuffix(cleaned))

\* normalize_merchant_name
NormalizeMerchantName(name) == Join(NormalizedCharacters(name))

\* ReceiptChunker._normalize_merchant_name: the merchant_name_norm written into
\* every chunk; a character outside [a-z0-9\s] becomes a space, and no suffix is
\* stripped
ChunkerNormalizeMerchantName(name) ==
    IF name = "" THEN ""
    ELSE LET lowered == [i \in 1..Len(Spelling[name]) |-> Lower(Spelling[name][i])]
             spaced == [i \in 1..Len(lowered) |->
                           IF Kept(lowered[i]) THEN lowered[i] ELSE " "]
         IN Join(Strip(CollapseSpaces(spaced)))

\* ------------------------------------------------- the merchant matcher
\* The queries the matcher is asked are the keys of the tables that say what
\* its patterns capture in each.
\* _extract_via_prepositions: a preposition, whitespace, a capitalised run;
\* the run is cut at a temporal or locational keyword and must be longer
\* than two characters
ExtractViaPrepositions ==
    ("How much at Walmart?" :> <<"Walmart">>)
    @@ ("Total at Walmart in SF" :> <<"Walmart">>)
    @@ ("Receipts from Target Store" :> <<"Target Store">>)
    @@ ("Starbux" :> <<>>)
    @@ ("Whole Foods" :> <<>>)
    @@ ("Find my last pharmacy receipt" :> <<>>)
    @@ ("coffee" :> <<>>)

\* _tokenize: the capitalised sequences of each part of the query, then its
\* capitalised words longer than two characters
Tokenize ==
    ("How much at Walmart?" :> <<"How", "How", "Walmart", "Walmart">>)
    @@ ("Total at Walmart in SF" :> <<"Total", "Total", "Walmart", "Walmart">>)
    @@ ("Receipts from Target Store" :> <<"Receipts", "Receipts", "Target Store", "Target", "Store">>)
    @@ ("Starbux" :> <<"Starbux", "Starbux">>)
    @@ ("Whole Foods" :> <<"Whole Foods", "Whole", "Foods">>)
    @@ ("Find my last pharmacy receipt" :> <<"Find", "Find">>)
    @@ ("coffee" :> <<>>)

\* SequenceMatcher: the characters of the matching blocks of two strings
MatchingCharacters ==
    (<<"find", "starbucks">> :> 0)
    @@ (<<"find", "target">> :> 0)
    @@ (<<"find", "whole foods">> :> 2)
    @@ (<<"foods", "starbucks">> :> 1)
    @@ (<<"foods", "target">> :> 0)
    @@ (<<"foods", "whole foods">> :> 5)
    @@ (<<"how", "starbucks">> :> 0)
    @@ (<<"how", "target">> :> 0)
    @@ (<<"how", "whole foods">> :> 2)
    @@ (<<"receipts", "starbucks">> :> 3)
    @@ (<<"receipts", "target">> :> 3)
    @@ (<<"receipts", "whole foods">> :> 2)
    @@ (<<"starbux", "starbucks">> :> 6)
    @@ (<<"starbux", "target">> :> 3)
    @@ (<<"starbux", "whole foods">> :> 1)
    @@ (<<"store", "starbucks">> :> 3)
    @@ (<<"store", "target">> :> 3)
    @@ (<<"store", "whole foods">> :> 1)
    @@ (<<"target", "starbucks">> :> 3)
    @@ (<<"target", "target">> :> 6)
    @@ (<<"target", "whole foods">> :> 1)
    @@ (<<"total", "starbucks">> :> 2)
    @@ (<<"total", "target">> :> 2)
    @@ (<<"total", "whole foods">> :> 2)
    @@ (<<"walmart", "starbucks">> :> 2)
    @@ (<<"walmart", "target">> :> 3)
    @@ (<<"walmart", "whole foods">> :> 2)
    @@ (<<"whole", "starbucks">> :> 0)
    @@ (<<"whole", "target">> :> 1)
    @@ (<<"whole", "whole foods">> :> 5)
    @@ (<<"whole foods", "starbucks">> :> 1)
    @@ (<<"whole foods", "target">> :> 1)
    @@ (<<"whole foods", "whole foods">> :> 11)

\* scores are fractions <<numerator, denominator>>
AtLeast(x, y) == x[1] * y[2] >= y[1] * x[2]

\* SequenceMatcher(None, a, b).ratio(), then the boost of a substring match
Similarity(token, corpus_merchant) ==
    LET Within(a, b) ==
            \E i \in 1..(Len(b) - Len(a) + 1) : SubSeq(b, i, i + Len(a) - 1) = a
        norm_token == NormalizeMerchantName(token)
        norm_merchant == NormalizeMerchantName(corpus_merchant)
        length == Len(norm_token) + Len(norm_merchant)
        ratio == IF length = 0 THEN <<1, 1>>
                 ELSE <<2 * MatchingCharacters[<<norm_token, norm_merchant>>], length>>
        contained == \/ Within(NormalizedCharacters(token),
                               NormalizedCharacters(corpus_merchant))
                     \/ Within(NormalizedCharacters(corpus_merchant),
                               NormalizedCharacters(token))
    IN IF contained /\ ~AtLeast(ratio, <<9, 10>>) THEN <<9, 10>> ELSE ratio

\* _extract_via_fuzzy_match: the lists the call may return. Of the corpus
\* entries one token may be matched to, the best score wins, the first entry
\* met keeps a tie, and the corpus is a set walked in any order
RECURSIVE FuzzyLists(_, _)
FuzzyLists(tokens, corpus) ==
    IF tokens = <<>> THEN {<<>>}
    ELSE LET token == Head(tokens)
             rest == FuzzyLists(Tail(tokens), corpus)
             best == IF Len(Spelling[token]) < 3 THEN {}
                     ELSE {m \in corpus :
                             /\ Similarity(token, m)[1] > 0
                             /\ \A o \in corpus :
                                  AtLeast(Similarity(token, m), Similarity(token, o))
                             /\ AtLeast(Similarity(token, m), <<3, 4>>)}
         IN IF best = {} THEN rest
            ELSE {<<m>> \o r : <<m, r>> \in best \X rest}

ExtractViaFuzzyMatch(query, corpus) ==
    IF corpus = {} THEN {<<>>} ELSE FuzzyLists(Tokenize[query], corpus)

\* _extract_via_llm: the call fails, or the reply names no merchant, one, or
\* one merchant twice under two names
MerchantReplies ==
    {[ok |-> FALSE, merchants |-> <<>>], [ok |-> TRUE, merchants |-> <<>>],
     [ok |-> TRUE, merchants |-> <<"CVS">>],
     [ok |-> TRUE, merchants |-> <<"CVS Pharmacy", "CVS">>]}

ExtractViaLLM(reply) == IF reply.ok THEN reply.merchants ELSE <<>>

\* _normalize_list: the first name of each normalized form, stripped; seen
\* holds the normalized forms met so far
RECURSIVE NormalizeList(_, _)
NormalizeList(merchants, seen) ==
    IF merchants = <<>> THEN <<>>
    ELSE LET merchant == Head(merchants)
             stripped == Join(Strip(Spelling[merchant]))
             norm_key == NormalizeMerchantName(merchant)
         IN IF merchant = "" \/ Len(stripped) < 2 \/ norm_key \in seen
            THEN NormalizeList(Tail(merchants), seen)
            ELSE <<stripped>> \o NormalizeList(Tail(merchants), seen \cup {norm_key})

\* the values of indexed_merchants: None, or names from receipts
IndexedMerchants == {{}, {"Starbucks"}, {"Target", "Whole Foods Market"}}

IdleExtract ==
    [pc |-> "idle", query |-> "", corpus |-> {}, merchants |-> <<>>, ran |-> <<>>,
     took |-> {}, result |-> {}]

IdleNormalize ==
    [pc |-> "idle", names |-> <<"", "">>, forms |-> <<"", "">>, indexed |-> <<"", "">>]

\* ------------------------------------------------------------ the calendar
\* datetime: the proleptic Gregorian calendar of Python's datetime module
DaysInMonth(year, month) ==
    IF month = 2
    THEN (IF (year % 4 = 0 /\ year % 100 # 0) \/ year % 400 = 0 THEN 29 ELSE 28)
    ELSE IF month \in {4, 6, 9, 11} THEN 30 ELSE 31

\* date.toordinal(): 0001-01-01 is day 1
ToOrdinal(year, month, day) ==
    LET y == year - 1
        days_before_year == y * 365 + (y \div 4) - (y \div 100) + (y \div 400)
        days_before_month ==
            <<0, 31, 59, 90, 120, 151, 181, 212, 243, 273, 304, 334>>[month]
            + (IF month > 2 /\ DaysInMonth(year, 2) = 29 THEN 1 ELSE 0)
    IN days_before_year + days_before_month + day

\* datetime(year, month, day) raises ValueError outside these ranges
ValidDate(year, month, day) ==
    /\ year \in 1..9999
    /\ month \in 1..12
    /\ day \in 1..DaysInMonth(year, month)

\* an aware datetime in UTC
DateTime(year, month, day, hour, minute, second, microsecond) ==
    [year |-> year, month |-> month, day |-> day, hour |-> hour,
     minute |-> minute, second |-> second, microsecond |-> microsecond]

\* datetime(year, month, day, tzinfo=timezone.utc)
Date(year, month, day) == DateTime(year, month, day, 0, 0, 0, 0)

\* date.fromordinal(n), the time of day of dt kept
OnOrdinal(dt, n) ==
    LET year == CHOOSE y \in (n \div 366)..((n \div 365) + 1) :
                    ToOrdinal(y, 1, 1) <= n /\ n < ToOrdinal(y + 1, 1, 1)
        month == CHOOSE m \in 1..12 :
                     /\ ToOrdinal(year, m, 1) <= n
                     /\ n < ToOrdinal(year, m, 1) + DaysInMonth(year, m)
    IN [dt EXCEPT !.year = year, !.month = month,
                  !.day = n - ToOrdinal(year, month, 1) + 1]

\* datetime.isoweekday(): Monday is 1
IsoWeekday(dt) == ((ToOrdinal(dt.year, dt.month, dt.day) + 6) % 7) + 1

\* datetime.weekday(): Monday is 0
Weekday(dt) == (ToOrdinal(dt.year, dt.month, dt.day) + 6) % 7

\* dt + timedelta(days, hours, minutes, seconds, microseconds); a negative
\* timedelta is normalised by Python to negative days and a non-negative rest
PlusDelta(dt, days, hours, minutes, seconds, microseconds) ==
    LET us == dt.microsecond + microseconds
        s == dt.second + seconds + (us \div 1000000)
        mi == dt.minute + minutes + (s \div 60)
        h == dt.hour + hours + (mi \div 60)
        moved == OnOrdinal(dt, ToOrdinal(dt.year, dt.month, dt.day) + days + (h \div 24))
    IN [moved EXCEPT !.hour = h % 24, !.minute = mi % 60, !.second = s % 60,
                     !.microsecond = us % 1000000]

PlusDays(dt, days) == PlusDelta(dt, days, 0, 0, 0, 0)

\* dt - timedelta(microseconds=1)
MinusMicrosecond(dt) == PlusDelta(dt, -1, 23, 59, 59, 999999)

\* dt.replace(hour=0, minute=0, second=0, microsecond=0)
StartOfDay(dt) == [dt EXCEPT !.hour = 0, !.minute = 0, !.second = 0, !.microsecond = 0]

\* dt.replace(hour=23, minute=59, second=59, microsecond=999999)
EndOfDay(dt) ==
    [dt EXCEPT !.hour = 23, !.minute = 59, !.second = 59, !.microsecond = 999999]

\* datetime.isoformat() of an aware UTC datetime: the fraction is written
\* only when the microsecond is not zero (the empty sequence when it is)
IsoFormat(dt) ==
    [date |-> <<dt.year, dt.month, dt.day>>,
     time |-> <<dt.hour, dt.minute, dt.second>>,
     fraction |-> IF dt.microsecond = 0 THEN <<>> ELSE <<dt.microsecond>>,
     offset |-> "+00:00"]

\* ------------------------------------------------- the temporal resolver
\* A query of the resolver is a sequence of phrases; each pattern of the
\* resolver is given by the phrases it matches and the groups it captures.
TemporalPhrases ==
    {"2023-12-25", "2024-02-30", "1/15/24", "13/1/2024",
     "december 25, 2023", "march 5th", "feb 29", "december", "february 2024",
     "today", "yesterday", "last week", "this week", "last month", "this month",
     "last 30 days", "last year", "this year", "q4 2023", "q1",
     "thanksgiving", "thanksgiving 2023", "christmas", "fourth of july",
     "week before", "since 20230105", "since forever",
     "between 20230105 and 20230210", "between 20230210 and 20230105", "receipts"}

\* sequences of distinct elements of S, at most n long
RECURSIVE DistinctSeqs(_, _)
DistinctSeqs(S, n) ==
    IF n = 0 THEN {<<>>}
    ELSE LET shorter == DistinctSeqs(S, n - 1)
         IN shorter \cup {Append(q, p) : <<q, p>> \in
                            {<<q, p>> \in shorter \X S :
                                Len(q) = n - 1 /\ \A i \in 1..Len(q) : q[i] # p}}

\* the reference dates: a Monday at midnight (the unit tests' reference), the
\* last day of March of a leap year in the afternoon, and the last instant
\* of a New Year's Day that is a Sunday
ReferenceDates ==
    {DateTime(2024, 1, 15, 0, 0, 0, 0),
     DateTime(2024, 3, 31, 14, 30, 15, 123456),
     DateTime(2023, 1, 1, 23, 59, 59, 999999)}

\* re.search: the leftmost match in the query
FirstMatch(query, pattern) ==
    LET at == {i \in 1..Len(query) : query[i] \in DOMAIN pattern}
    IN pattern[query[CHOOSE i \in at : \A j \in at : i <= j]]

\* the pattern matches somewhere in the query
Found(query, pattern) == \E i \in 1..Len(query) : query[i] \in DOMAIN pattern

\* What each pattern of the resolver captures in the phrases it matches.
Patterns ==
    [
     \* r'\b(20\d{2})-(\d{2})-(\d{2})\b'
     iso |->
         ("2023-12-25" :> [year |-> 2023, month |-> 12, day |-> 25])
         @@ ("2024-02-30" :> [year |-> 2024, month |-> 2, day |-> 30]),
     \* r'\b(\d{1,2})/(\d{1,2})/(\d{2,4})\b'
     slash |->
         ("1/15/24" :> [month |-> 1, day |-> 15, year |-> 24])
         @@ ("13/1/2024" :> [month |-> 13, day |-> 1, year |-> 2024]),
     \* month name, day, optional ordinal suffix, optional comma, optional 20YY;
     \* a group that took no part in the match is the empty sequence
     textual |->
         ("december 25, 2023" :> [month_name |-> "december", day |-> 25, year_str |-> <<2023>>])
         @@ ("march 5th" :> [month_name |-> "march", day |-> 5, year_str |-> <<>>])
         @@ ("feb 29" :> [month_name |-> "feb", day |-> 29, year_str |-> <<>>]),
     \* the month names a phrase holds as whole words
     month_words |->
         ("december 25, 2023" :> {"december"}) @@ ("march 5th" :> {"march"})
         @@ ("feb 29" :> {"feb"}) @@ ("december" :> {"december"})
         @@ ("february 2024" :> {"february"}) @@ ("fourth of july" :> {"july"}),
     \* r'20(\d{2})', anywhere in the query
     year |->
         ("2023-12-25" :> 2023) @@ ("2024-02-30" :> 2024) @@ ("13/1/2024" :> 2024)
         @@ ("december 25, 2023" :> 2023) @@ ("february 2024" :> 2024)
         @@ ("q4 2023" :> 2023) @@ ("thanksgiving 2023" :> 2023)
         @@ ("since 20230105" :> 2023) @@ ("between 20230105 and 20230210" :> 2023)
         @@ ("between 20230210 and 20230105" :> 2023),
     \* r'(?:last|past)\s+(\d+)\s+days?'
     last_days |->
         ("last 30 days" :> 30),
     \* r'q([1-4])\s*(20\d{2})?'
     quarter |->
         ("q4 2023" :> [quarter |-> 4, year |-> <<2023>>])
         @@ ("q1" :> [quarter |-> 1, year |-> <<>>]),
     \* r'between\s+(.+?)\s+and\s+(.+?)(?:\s|$)'
     between |->
         ("between 20230105 and 20230210" :> [start_str |-> "20230105", end_str |-> "20230210"])
         @@ ("between 20230210 and 20230105" :> [start_str |-> "20230210", end_str |-> "20230105"]),
     \* query.split('since', 1)[1]: the rest of the phrase, then the later phrases
     since |->
         ("since 20230105" :> "20230105") @@ ("since forever" :> "forever")
    ]

MONTHS ==
    ("january" :> 1) @@ ("jan" :> 1) @@ ("february" :> 2) @@ ("feb" :> 2)
    @@ ("march" :> 3) @@ ("mar" :> 3) @@ ("april" :> 4) @@ ("apr" :> 4)
    @@ ("may" :> 5) @@ ("june" :> 6) @@ ("jun" :> 6) @@ ("july" :> 7)
    @@ ("jul" :> 7) @@ ("august" :> 8) @@ ("aug" :> 8) @@ ("september" :> 9)
    @@ ("sep" :> 9) @@ ("sept" :> 9) @@ ("october" :> 10) @@ ("oct" :> 10)
    @@ ("november" :> 11) @@ ("nov" :> 11) @@ ("december" :> 12) @@ ("dec" :> 12)

\* the text the resolver looks for with Python's `in`
Occurrences ==
    ("today" :> {"today"}) @@ ("yesterday" :> {"yesterday"})
    @@ ("last week" :> {"last week", "week"}) @@ ("this week" :> {"this week", "week"})
    @@ ("last month" :> {"last month"}) @@ ("this month" :> {"this month"})
    @@ ("last year" :> {"last year"}) @@ ("this year" :> {"this year"})
    @@ ("thanksgiving" :> {"thanksgiving"}) @@ ("thanksgiving 2023" :> {"thanksgiving"})
    @@ ("christmas" :> {"christmas"}) @@ ("fourth of july" :> {"fourth of july"})
    @@ ("week before" :> {"week before", "week"})
    @@ ("since 20230105" :> {"since"}) @@ ("since forever" :> {"since"})

\* needle in query
In(needle, query) ==
    \E i \in 1..Len(query) :
        query[i] \in DOMAIN Occurrences /\ needle \in Occurrences[query[i]]

\* the dates dateutil reads from a string
DateStrings ==
    ("20230105" :> Date(2023, 1, 5)) @@ ("20230210" :> Date(2023, 2, 10))

\* what a strategy hands back
NoMatch == [kind |-> "none"]

Raised(exc) == [kind |-> "raise", exc |-> exc]

DateRange(start, end) == [kind |-> "range", start |-> IsoFormat(start), end |-> IsoFormat(end)]

\* _format_single_day
FormatSingleDay(date) == DateRange(StartOfDay(date), EndOfDay(date))

\* _format_date_range
FormatDateRange(start, end) == DateRange(StartOfDay(start), EndOfDay(end))

\* _get_month_range
GetMonthRange(year, month) ==
    [start |-> Date(year, month, 1),
     end |-> IF month = 12 THEN MinusMicrosecond(Date(year + 1, 1, 1))
             ELSE MinusMicrosecond(Date(year, month + 1, 1))]

\* _try_iso_date
TryIsoDate(query, now) ==
    LET match == FirstMatch(query, Patterns.iso)
    IN IF ~Found(query, Patterns.iso) THEN NoMatch
       ELSE IF ~ValidDate(match.year, match.month, match.day) THEN Raised("ValueError")
       ELSE FormatSingleDay(Date(match.year, match.month, match.day))

\* _try_slash_date
TrySlashDate(query) ==
    LET match == FirstMatch(query, Patterns.slash)
        year_int == IF match.year < 100 THEN match.year + 2000 ELSE match.year
    IN IF ~Found(query, Patterns.slash) THEN NoMatch
       ELSE IF ~ValidDate(year_int, match.month, match.day) THEN Raised("ValueError")
       ELSE FormatSingleDay(Date(year_int, match.month, match.day))

\* the year of a textual date without one is always the reference year
TryTextualDateThisYear(query, now) ==
    LET match == FirstMatch(query, Patterns.textual)
        month_num == MONTHS[match.month_name]
        year_num == IF match.year_str # <<>> THEN match.year_str[1] ELSE now.year
    IN IF ~Found(query, Patterns.textual) THEN NoMatch
       ELSE IF ~ValidDate(year_num, month_num, match.day) THEN Raised("ValueError")
       ELSE FormatSingleDay(Date(year_num, month_num, match.day))

\* _try_textual_date
TryTextualDate(query, now) ==
    LET match == FirstMatch(query, Patterns.textual)
        month_num == MONTHS[match.month_name]
        year_num == IF match.year_str # <<>> THEN match.year_str[1]
                    ELSE IF month_num > now.month THEN now.year - 1
                    ELSE now.year
    IN IF ~Found(query, Patterns.textual) THEN NoMatch
       ELSE IF ~ValidDate(year_num, month_num, match.day) THEN Raised("ValueError")
       ELSE FormatSingleDay(Date(year_num, month_num, match.day))

\* the month names of the query, as whole words
MonthsNamed(query) ==
    UNION {Patterns.month_words[query[i]] : i \in {j \in 1..Len(query) : query[j] \in DOMAIN Patterns.month_words}}

\* a month without a year is the month of the reference year alone
TryMonthOnlySingleYear(query, now) ==
    LET named == {MONTHS[w] : w \in MonthsNamed(query)}
        month_num == CHOOSE m \in named : \A o \in named : m <= o
        year_match == FirstMatch(query, Patterns.year)
        month_range == GetMonthRange(IF Found(query, Patterns.year) THEN year_match
                                     ELSE now.year,
                                     month_num)
    IN IF named = {} THEN NoMatch
       ELSE DateRange(month_range.start, month_range.end)

\* _try_month_only: MONTHS is walked in its own order, so of the months the
\* query names the one that comes first in the table decides
TryMonthOnly(query, now) ==
    LET named == {MONTHS[w] : w \in MonthsNamed(query)}
        month_num == CHOOSE m \in named : \A o \in named : m <= o
        year_match == FirstMatch(query, Patterns.year)
        month_range == GetMonthRange(year_match, month_num)
        start_year == now.year - 5
        end_year == now.year
    IN IF named = {} THEN NoMatch
       ELSE IF Found(query, Patterns.year)
            THEN DateRange(month_range.start, month_range.end)
       ELSE DateRange(Date(start_year, month_num, 1),
                      IF month_num = 12 THEN MinusMicrosecond(Date(end_year + 1, 1, 1))
                      ELSE MinusMicrosecond(Date(end_year, month_num + 1, 1)))

\* _try_relative_timeframe
TryRelativeTimeframe(query, now) ==
    LET last_week_start == StartOfDay(PlusDays(now, 0 - (Weekday(now) + 7)))
        first_this_month == StartOfDay([now EXCEPT !.day = 1])
        last_day_last_month == MinusMicrosecond(first_this_month)
        days == FirstMatch(query, Patterns.last_days)
    IN IF In("today", query) THEN DateRange(StartOfDay(now), now)
       ELSE IF In("yesterday", query) THEN FormatSingleDay(PlusDays(now, -1))
       ELSE IF In("last week", query)
            THEN DateRange(last_week_start, PlusDelta(last_week_start, 6, 23, 59, 59, 999999))
       ELSE IF In("this week", query)
            THEN DateRange(StartOfDay(PlusDays(now, 0 - Weekday(now))), now)
       ELSE IF In("last month", query)
            THEN DateRange(StartOfDay([last_day_last_month EXCEPT !.day = 1]),
                           last_day_last_month)
       ELSE IF In("this month", query) THEN DateRange(first_this_month, now)
       ELSE IF Found(query, Patterns.last_days) THEN DateRange(StartOfDay(PlusDays(now, 0 - days)), now)
       ELSE IF In("last year", query)
            THEN DateRange(Date(now.year - 1, 1, 1),
                           DateTime(now.year - 1, 12, 31, 23, 59, 59, 999999))
       ELSE IF In("this year", query) THEN DateRange(Date(now.year, 1, 1), now)
       ELSE NoMatch

\* _thanksgiving_date: the first Thursday of November and three weeks
ThanksgivingDate(year) ==
    LET november_first == Date(year, 11, 1)
        days_until_thursday == (3 - Weekday(november_first)) % 7
    IN PlusDays(PlusDays(november_first, days_until_thursday), 21)

\* _memorial_day
MemorialDay(year) ==
    LET last_may == PlusDays(Date(year, 6, 1), -1)
    IN PlusDays(last_may, 0 - (Weekday(last_may) % 7))

\* _labor_day
LaborDay(year) ==
    LET sep_first == Date(year, 9, 1)
    IN PlusDays(sep_first, (0 - Weekday(sep_first)) % 7)

\* HOLIDAYS, in the order of the table
HolidayNames ==
    <<"thanksgiving", "christmas", "new years", "new year", "black friday",
      "cyber monday", "memorial day", "labor day", "fourth of july", "halloween">>

HolidayDate(holiday_name, year) ==
    CASE holiday_name = "thanksgiving" -> ThanksgivingDate(year)
      [] holiday_name = "christmas" -> Date(year, 12, 25)
      [] holiday_name \in {"new years", "new year"} -> Date(year, 1, 1)
      [] holiday_name = "black friday" -> PlusDays(ThanksgivingDate(year), 1)
      [] holiday_name = "cyber monday" -> PlusDays(ThanksgivingDate(year), 4)
      [] holiday_name = "memorial day" -> MemorialDay(year)
      [] holiday_name = "labor day" -> LaborDay(year)
      [] holiday_name = "fourth of july" -> Date(year, 7, 4)
      [] holiday_name = "halloween" -> Date(year, 10, 31)

\* _try_named_period
TryNamedPeriod(query, now) ==
    LET quarter_match == FirstMatch(query, Patterns.quarter)
        q_year == IF quarter_match.year # <<>> THEN quarter_match.year[1] ELSE now.year
        end_month == quarter_match.quarter * 3
        found == {i \in 1..Len(HolidayNames) : In(HolidayNames[i], query)}
        holiday_name == HolidayNames[CHOOSE i \in found : \A j \in found : i <= j]
        year_match == FirstMatch(query, Patterns.year)
        holiday_date == HolidayDate(holiday_name,
                                    IF Found(query, Patterns.year) THEN year_match
                                    ELSE now.year)
        week_start == PlusDays(holiday_date, 0 - Weekday(holiday_date))
    IN IF Found(query, Patterns.quarter)
       THEN DateRange(Date(q_year, (quarter_match.quarter - 1) * 3 + 1, 1),
                      IF end_month = 12
                      THEN DateTime(q_year, 12, 31, 23, 59, 59, 999999)
                      ELSE MinusMicrosecond(Date(q_year, end_month + 1, 1)))
       ELSE IF found = {} THEN NoMatch
       ELSE IF In("week before", query)
            THEN FormatDateRange(PlusDays(holiday_date, -7), PlusDays(holiday_date, -1))
       ELSE IF In("week after", query) \/ In("week following", query)
            THEN FormatDateRange(PlusDays(holiday_date, 1), PlusDays(holiday_date, 7))
       ELSE IF In("week", query) \/ In("weekend", query)
            THEN FormatDateRange(week_start, PlusDays(week_start, 6))
       ELSE FormatSingleDay(holiday_date)

\* date_parser.parse(text, fuzzy=True) of a string that begins with head and
\* goes on with the phrases of tail: one date in it is read, none is a
\* ParserError, and of several the library may read any or give up. A date
\* read is a one-element sequence, a ParserError the empty sequence.
DateutilParse(head, tail) ==
    LET undated == {"receipts", "week before", "since forever"}
    IN IF \A i \in 1..Len(tail) : tail[i] \in undated
       THEN (IF head \in DOMAIN DateStrings THEN {<<DateStrings[head]>>} ELSE {<<>>})
       ELSE {<<>>} \cup {<<DateStrings[d]>> : d \in DOMAIN DateStrings}

\* _try_contextual_range: the outcomes the call may have
TryContextualRange(query, now) ==
    LET at == {i \in 1..Len(query) : query[i] \in DOMAIN Patterns.since}
        first == CHOOSE i \in at : \A j \in at : i <= j
        since == IF In("since", query)
                 THEN DateutilParse(Patterns.since[query[first]],
                                    SubSeq(query, first + 1, Len(query)))
                 ELSE {<<>>}
        between_match == FirstMatch(query, Patterns.between)
        between == IF ~Found(query, Patterns.between) THEN NoMatch
                   ELSE IF {between_match.start_str, between_match.end_str}
                               \subseteq DOMAIN DateStrings
                        THEN FormatDateRange(DateStrings[between_match.start_str],
                                             DateStrings[between_match.end_str])
                   ELSE NoMatch
    IN {IF parsed = <<>> THEN between ELSE DateRange(parsed[1], now) : parsed \in since}

\* what the language model may answer to the date prompt: the call fails,
\* {"date_range": null}, two ISO dates, or text that is no ISO date
DateReplies == {"error", "null", "dates", "garbage"}

\* _try_llm_extraction, for the reply 2024-01-01 to 2024-01-31
TryLLMExtraction(reply, now) ==
    IF reply = "dates"
    THEN DateRange([Date(2024, 1, 1) EXCEPT !.hour = 0, !.minute = 0, !.second = 0],
                   EndOfDay(Date(2024, 1, 31)))
    ELSE NoMatch

\* ---- resolve_date_range, strategy by strategy
StrategyOrder ==
    <<"iso", "slash", "textual", "month", "relative", "named", "contextual", "llm">>

IdleResolve ==
    [pc |-> "idle", query |-> <<>>, now |-> Date(2024, 1, 15), consulted |-> <<>>,
     result |-> NoMatch, intent |-> <<>>]

\* QueryParser._extract_dates: the parser's own date rules. `now` is
\* datetime.now(), or RECEIPT_REFERENCE_DATE when the variable is set, and
\* offset is the UTC offset that datetime prints ("" for a naive one). A date
\* built from the query is naive, and replace(hour=.., minute=.., second=..)
\* leaves the microsecond alone.
ExtractDates(query, now, offset) ==
    LET Iso(dt, tz) == [IsoFormat(dt) EXCEPT !.offset = tz]
        Range(start, end, tz) ==
            [kind |-> "range", start |-> Iso(start, tz), end |-> Iso(end, tz)]
        Midnight(dt) == [dt EXCEPT !.hour = 0, !.minute = 0, !.second = 0]
        LastSecond(dt) == [dt EXCEPT !.hour = 23, !.minute = 59, !.second = 59]
        Day(year, month, day) ==
            IF ~ValidDate(year, month, day) THEN Raised("ValueError")
            ELSE Range(Midnight(Date(year, month, day)), LastSecond(Date(year, month, day)), "")
        iso_match == FirstMatch(query, Patterns.iso)
        slash_match == FirstMatch(query, Patterns.slash)
        year_int == IF slash_match.year < 100 THEN slash_match.year + 2000
                    ELSE slash_match.year
        month_day_match == FirstMatch(query, Patterns.textual)
        month_num == MONTHS[month_day_match.month_name]
        year_num == IF month_day_match.year_str # <<>> THEN month_day_match.year_str[1]
                    ELSE IF month_num > now.month THEN now.year - 1
                    ELSE now.year
        named == {MONTHS[w] : w \in MonthsNamed(query)}
        yesterday == PlusDays(now, -1)
    IN IF Found(query, Patterns.iso)
       THEN Day(iso_match.year, iso_match.month, iso_match.day)
       ELSE IF Found(query, Patterns.slash)
       THEN Day(year_int, slash_match.month, slash_match.day)
       ELSE IF Found(query, Patterns.textual)
       THEN Day(year_num, month_num, month_day_match.day)
       ELSE IF named # {}
       THEN [kind |-> "date_filter",
             transaction_month |-> CHOOSE m \in named : \A o \in named : m <= o,
             transaction_year |-> IF Found(query, Patterns.year)
                                  THEN <<FirstMatch(query, Patterns.year)>> ELSE <<>>]
       ELSE IF In("last week", query) THEN Range(PlusDays(now, -7), now, offset)
       ELSE IF In("last month", query)
       THEN Range([PlusDays([now EXCEPT !.day = 1], -30) EXCEPT !.day = 1],
                  [now EXCEPT !.day = 1], offset)
       ELSE IF In("yesterday", query)
       THEN Range(Midnight(yesterday), LastSecond(yesterday), offset)
       ELSE IF In("this week", query)
       THEN Range(Midnight(PlusDays(now, 0 - Weekday(now))), now, offset)
       ELSE IF In("this month", query)
       THEN Range(Midnight([now EXCEPT !.day = 1]), now, offset)
       ELSE [kind |-> "empty"]

\* ------------------------------------------------------ retrieval filters
\* one predicate of a filter: absent, a value, or {"$in": values}
NoPredicate == [op |-> "none", values |-> {}]

NoFilters ==
    [merchant_name_norm |-> NoPredicate, transaction_ts |-> FALSE,
     category |-> NoPredicate, feature_or |-> {}, keys |-> {}]

\* the merchant names go into the filter as the Intent spells them
BuildSearchFiltersRawNames(params) ==
    LET or_group == params.categories # {}
        any_of == params.feature_any_of # {}
    IN [merchant_name_norm |->
            IF params.merchants = {} THEN NoPredicate
            ELSE [op |-> IF Cardinality(params.merchants) = 1 THEN "eq" ELSE "$in",
                  values |-> params.merchants],
        transaction_ts |-> params.date_range = "dict",
        category |->
            IF params.categories = {} THEN NoPredicate
            ELSE [op |-> IF Cardinality(params.categories) > 1 THEN "$in" ELSE "eq",
                  values |-> params.categories],
        feature_or |-> params.feature_any_of,
        keys |-> (IF params.merchants # {} THEN {"merchant_name_norm"} ELSE {})
                     \cup (IF params.date_range = "dict" THEN {"transaction_ts"} ELSE {})
                     \cup (IF or_group /\ any_of THEN {"$and"}
                           ELSE IF or_group \/ any_of THEN {"$or"} ELSE {})]

\* _build_search_filters for a date_range that does not raise: the merchant
\* predicate, the timestamp range of a start/end dict (present or not), the
\* category predicate of the $or over item_category and category, the flags
\* of the $or of feature_any_of, and the keys the dict has at its top level
\* (the two $or groups go under one $and when both are there)
BuildSearchFilters(params) ==
    LET or_group == params.categories # {}
        any_of == params.feature_any_of # {}
    IN [merchant_name_norm |->
            IF params.merchants = {} THEN NoPredicate
            ELSE [op |-> IF Cardinality(params.merchants) = 1 THEN "eq" ELSE "$in",
                  values |-> {NormalizeMerchantName(m) : m \in params.merchants}],
        transaction_ts |-> params.date_range = "dict",
        category |->
            IF params.categories = {} THEN NoPredicate
            ELSE [op |-> IF Cardinality(params.categories) > 1 THEN "$in" ELSE "eq",
                  values |-> params.categories],
        feature_or |-> params.feature_any_of,
        keys |-> (IF params.merchants # {} THEN {"merchant_name_norm"} ELSE {})
                     \cup (IF params.date_range = "dict" THEN {"transaction_ts"} ELSE {})
                     \cup (IF or_group /\ any_of THEN {"$and"}
                           ELSE IF or_group \/ any_of THEN {"$or"} ELSE {})]

\* parse() called on its own, and the filter built from what it returns
IdleParse ==
    [pc |-> "idle", query |-> {}, called |-> FALSE, reply |-> <<>>,
     rules |-> NoParams, params |-> NoParams, filters |-> NoFilters]

\* ------------------------------------------------------------------ state
VARIABLES
    resolverAttached,  \* self.parser has a temporal_resolver attribute
    generatorDouble,   \* self.generator.generate is a test double
    callers,           \* the invocations of query() that share the engine
    workload,          \* the query strings callers may submit
    index,             \* the records held by the vector index
    refDate,           \* temporal_resolver._reference_date
    local,             \* the frame of each invocation of query()
    hist,              \* what each invocation has done so far
    refBefore,         \* refDate when the running invocations began
    auditArgs,         \* arguments of a direct call of the audit
    auditRet,          \* what that call returned
    resolve,           \* a direct call of resolve_date_range
    extract,           \* a direct call of extract_merchants
    normalize,         \* a direct call of normalize_merchant_name
    parsed             \* a direct call of QueryParser.parse

vars == <<resolverAttached, generatorDouble, callers, workload, index, refDate,
          local, hist, refBefore, auditArgs, auditRet, resolve, extract, normalize,
          parsed>>

\* the components the unit tests call on their own
standalone == <<resolve, extract, normalize, parsed>>

\* the engine and the audit
engine == <<resolverAttached, generatorDouble, callers, workload, index, refDate,
            local, hist, refBefore, auditArgs, auditRet>>

StandaloneIdle ==
    /\ resolve = IdleResolve
    /\ extract = IdleExtract
    /\ normalize = IdleNormalize
    /\ parsed = IdleParse

wiring == <<resolverAttached, generatorDouble, callers, workload, index>>

Invocations == {1, 2}

IdleFrame == [pc |-> "idle", query_text |-> {}, latest_date |-> NoDate,
              original_ref |-> NoDate, params |-> NoParams, filters |-> NoFilters,
              search_results |-> <<>>,
              audit_result |-> EmptyAudit, answer |-> None, result |-> NoResult,
              raised |-> None]

NoHistory == [refAtEntry |-> NoDate, failedAt |-> None, fetchFailed |-> FALSE,
              searchFailed |-> FALSE, searchCalls |-> 0, genCalls |-> 0,
              auditRan |-> FALSE, installed |-> FALSE, restored |-> FALSE]

NotRun == [kind |-> "notrun", count |-> 0, num |-> 0, den |-> 1, verified |-> FALSE]

NoAuditArgs == [aggregation |-> None, sum_basis |-> None, metric |-> None,
                results |-> <<>>]

\* the attributes QueryParser.__init__ sets
SourceParserAttributes == {"query_patterns", "semantic_mappings"}

\* the attribute query() reads the resolver from; the parser that carries it
\* composes the Temporal Resolver (Query Parser pipeline, step 3)
TemporalResolverAttribute == "temporal_resolver"

ParserAttributes ==
    SourceParserAttributes
        \cup (IF resolverAttached THEN {TemporalResolverAttribute} ELSE {})

\* a double accepts any call; AnswerGenerator.generate binds its own signature
GenerateAccepts == generatorDouble \/ Binds(GenerateKeywords, GenerateParameters)

\* The engine query() runs on.  Its collaborators are taken in both wirings:
\* the parser with and without a temporal_resolver attribute, the generator
\* as AnswerGenerator.generate and as the double the integration test puts
\* in its place.  QueryEngine.__init__ as written calls AnswerGenerator()
\* without the openai_client its __init__ requires; a claim about query()
\* is about an engine that exists, so the model starts from one.
EngineInit(who, queries, indexes) ==
    /\ resolverAttached \in BOOLEAN
    /\ generatorDouble \in BOOLEAN
    /\ callers = who
    /\ workload = queries
    /\ index \in indexes
    /\ refDate = Now
    /\ local = [t \in Invocations |-> IdleFrame]
    /\ hist = [t \in Invocations |-> NoHistory]
    /\ refBefore = Now
    /\ auditArgs = NoAuditArgs
    /\ auditRet = NotRun
    /\ StandaloneIdle

\* one caller at a time
Init == EngineInit({1}, Queries, {{}, ChunksOf({"r1"})})

\* the exception handler of query(): log, return the error result
Handle(t, step) ==
    LET exc == StepException(step)
    IN [local EXCEPT ![t].pc = "done",
                     ![t].result = IF Caught(exc) THEN ErrorResult ELSE NoResult,
                     ![t].raised = IF Caught(exc) THEN None ELSE exc]

Quiet(t) == \A u \in callers \ {t} : local[u].pc \in {"idle", "done"}

\* query(query_text) is entered
Begin(t) ==
    /\ t \in callers
    /\ local[t].pc = "idle"
    /\ \E q \in workload :
         local' = [local EXCEPT ![t] = [IdleFrame EXCEPT !.pc = "fetch", !.query_text = q]]
    /\ hist' = [hist EXCEPT ![t] = [NoHistory EXCEPT !.refAtEntry = refDate]]
    /\ refBefore' = IF Quiet(t) THEN refDate ELSE refBefore
    /\ UNCHANGED <<standalone, wiring, refDate, auditArgs, auditRet>>

\* latest_date = self.vector_manager.get_latest_transaction_date()
FetchLatest(t) ==
    /\ t \in callers
    /\ local[t].pc = "fetch"
    /\ \E ok \in BOOLEAN :
         LET latest == LatestTransactionDate(ok, index)
         IN /\ local' = [local EXCEPT ![t].latest_date = latest,
                                      ![t].pc = IF latest # NoDate THEN "save" ELSE "parse"]
            /\ hist' = [hist EXCEPT ![t].fetchFailed = ~ok]
    /\ UNCHANGED <<standalone, wiring, refDate, refBefore, auditArgs, auditRet>>

\* original_ref = self.parser.temporal_resolver._reference_date
SaveReference(t) ==
    /\ t \in callers
    /\ local[t].pc = "save"
    /\ \/ /\ TemporalResolverAttribute \in ParserAttributes
          /\ local' = [local EXCEPT ![t].original_ref = refDate, ![t].pc = "install"]
          /\ hist' = hist
       \/ /\ TemporalResolverAttribute \notin ParserAttributes
          /\ local' = Handle(t, "resolver")
          /\ hist' = [hist EXCEPT ![t].failedAt = "resolver"]
    /\ UNCHANGED <<standalone, wiring, refDate, refBefore, auditArgs, auditRet>>

\* self.parser.temporal_resolver._reference_date = latest_date
InstallReference(t) ==
    /\ t \in callers
    /\ local[t].pc = "install"
    /\ refDate' = local[t].latest_date
    /\ local' = [local EXCEPT ![t].pc = "parse"]
    /\ hist' = [hist EXCEPT ![t].installed = TRUE]
    /\ UNCHANGED <<standalone, wiring, refBefore, auditArgs, auditRet>>

\* params = self.parser.parse(query_text)
ParseQuery(t) ==
    /\ t \in callers
    /\ local[t].pc = "parse"
    /\ \/ /\ DateRaises(local[t].query_text)
          /\ local' = Handle(t, "parse")
          /\ hist' = [hist EXCEPT ![t].failedAt = "parse"]
       \/ /\ ~DateRaises(local[t].query_text)
          /\ \E llm \in LLMReplies :
               local' = [local EXCEPT
                   ![t].params = Parse(local[t].query_text, llm),
                   ![t].pc = IF local[t].latest_date # NoDate THEN "restore" ELSE "filters"]
          /\ hist' = hist
    /\ UNCHANGED <<standalone, wiring, refDate, refBefore, auditArgs, auditRet>>

\* self.parser.temporal_resolver._reference_date = original_ref
RestoreReference(t) ==
    /\ t \in callers
    /\ local[t].pc = "restore"
    /\ refDate' = local[t].original_ref
    /\ local' = [local EXCEPT ![t].pc = "filters"]
    /\ hist' = [hist EXCEPT ![t].restored = TRUE]
    /\ UNCHANGED <<standalone, wiring, refBefore, auditArgs, auditRet>>

\* filters = self._build_search_filters(params): a date_range that is a list
\* of strings has no timestamp(); that AttributeError is not among the
\* exceptions the filter builder swallows
BuildFilters(t) ==
    /\ t \in callers
    /\ local[t].pc = "filters"
    /\ \/ /\ local[t].params.date_range = "list"
          /\ local' = Handle(t, "filters")
          /\ hist' = [hist EXCEPT ![t].failedAt = "filters"]
       \/ /\ local[t].params.date_range # "list"
          /\ local' = [local EXCEPT ![t].pc = "search",
                                    ![t].filters = BuildSearchFilters(local[t].params)]
          /\ hist' = hist
    /\ UNCHANGED <<standalone, wiring, refDate, refBefore, auditArgs, auditRet>>

\* search_results = hybrid_search(...); the zero result return
Search(t) ==
    /\ t \in callers
    /\ local[t].pc = "search"
    /\ \E ok \in BOOLEAN, matches \in MatchLists(index) :
         LET found == HybridSearch(ok, matches)
         IN /\ local' = [local EXCEPT
                  ![t].search_results = found,
                  ![t].pc = IF ZeroResults(found) THEN "done" ELSE "audit",
                  ![t].result = IF ZeroResults(found)
                                THEN NotFoundResult(local[t].params.query_type)
                                ELSE NoResult]
            /\ hist' = [hist EXCEPT ![t].searchFailed = ~ok,
                                    ![t].searchCalls = hist[t].searchCalls + 1]
    /\ UNCHANGED <<standalone, wiring, refDate, refBefore, auditArgs, auditRet>>

\* audit_result = {}; the audit, for query_type 'aggregation' only
Audit(t) ==
    /\ t \in callers
    /\ local[t].pc = "audit"
    /\ \/ /\ local[t].params.query_type = "aggregation"
          /\ local' = [local EXCEPT
                 ![t].audit_result =
                     PerformAggregationAudit(local[t].params, local[t].search_results),
                 ![t].pc = "generate"]
          /\ hist' = [hist EXCEPT ![t].auditRan = TRUE]
       \/ /\ local[t].params.query_type # "aggregation"
          /\ local' = [local EXCEPT ![t].audit_result = EmptyAudit, ![t].pc = "generate"]
          /\ hist' = hist
    /\ UNCHANGED <<standalone, wiring, refDate, refBefore, auditArgs, auditRet>>

\* answer = self.generator.generate(query=, context=, query_params=, audit_result=)
Generate(t) ==
    /\ t \in callers
    /\ local[t].pc = "generate"
    /\ \/ /\ GenerateAccepts
          /\ local' = [local EXCEPT ![t].answer = "generated", ![t].pc = "assemble"]
          /\ hist' = [hist EXCEPT ![t].genCalls = hist[t].genCalls + 1]
       \/ /\ ~GenerateAccepts
          /\ local' = Handle(t, "generate")
          /\ hist' = [hist EXCEPT ![t].genCalls = hist[t].genCalls + 1,
                                  ![t].failedAt = "generate"]
    /\ UNCHANGED <<standalone, wiring, refDate, refBefore, auditArgs, auditRet>>

\* return QueryResult(...): audit_result.get('verified') on None raises
Assemble(t) ==
    /\ t \in callers
    /\ local[t].pc = "assemble"
    /\ \/ /\ local[t].audit_result.kind = "none"
          /\ local' = Handle(t, "assembly")
          /\ hist' = [hist EXCEPT ![t].failedAt = "assembly"]
       \/ /\ local[t].audit_result.kind # "none"
          /\ local' = [local EXCEPT
                 ![t].result = AssembledResult(local[t].answer, local[t].search_results,
                                               local[t].audit_result,
                                               local[t].params.query_type),
                 ![t].pc = "done"]
          /\ hist' = hist
    /\ UNCHANGED <<standalone, wiring, refDate, refBefore, auditArgs, auditRet>>

\* the caller takes the result; the frame is gone
Return(t) ==
    /\ t \in callers
    /\ local[t].pc = "done"
    /\ local' = [local EXCEPT ![t] = IdleFrame]
    /\ hist' = [hist EXCEPT ![t] = NoHistory]
    /\ UNCHANGED <<standalone, wiring, refDate, refBefore, auditArgs, auditRet>>

Next ==
    \E t \in Invocations :
        \/ Begin(t)
        \/ FetchLatest(t)
        \/ SaveReference(t)
        \/ InstallReference(t)
        \/ ParseQuery(t)
        \/ RestoreReference(t)
        \/ BuildFilters(t)
        \/ Search(t)
        \/ Audit(t)
        \/ Generate(t)
        \/ Assemble(t)
        \/ Return(t)

Spec == Init /\ [][Next]_vars

\* two invocations share the engine; one summary record is indexed
ConcurrentQueries == {{"how much", "at Target"}, {"average"}, {"2024-02-30"}}

InitConcurrent ==
    EngineInit(Invocations, ConcurrentQueries, {{ChunkMeta("r1", "receipt_summary")}})

SpecConcurrent == InitConcurrent /\ [][Next]_vars

\* ------------------------------------------------ the audit, called alone
AuditInputs ==
    [aggregation : {None, "sum", "average", "count"},
     sum_basis : {"receipts", "items"},
     metric : {"total", "tax", "tip", "subtotal"},
     results : SeqsUpTo(AllChunks, MaxEvidence)]

InitAudit ==
    /\ resolverAttached = FALSE
    /\ generatorDouble = FALSE
    /\ callers = {}
    /\ workload = {}
    /\ index = {}
    /\ refDate = Now
    /\ local = [t \in Invocations |-> IdleFrame]
    /\ hist = [t \in Invocations |-> NoHistory]
    /\ refBefore = Now
    /\ auditArgs \in AuditInputs
    /\ auditRet = NotRun
    /\ StandaloneIdle

\* self._perform_aggregation_audit(params, results)
RunAudit ==
    /\ auditRet = NotRun
    /\ auditRet' = PerformAggregationAudit(auditArgs, auditArgs.results)
    /\ UNCHANGED <<standalone, wiring, refDate, local, hist, refBefore, auditArgs>>

NextAudit == RunAudit

SpecAudit == InitAudit /\ [][NextAudit]_vars

\* ------------------------------------ resolve_date_range, called directly
InitResolver ==
    /\ resolverAttached = FALSE
    /\ generatorDouble = FALSE
    /\ callers = {}
    /\ workload = {}
    /\ index = {}
    /\ refDate = Now
    /\ local = [t \in Invocations |-> IdleFrame]
    /\ hist = [t \in Invocations |-> NoHistory]
    /\ refBefore = Now
    /\ auditArgs = NoAuditArgs
    /\ auditRet = NotRun
    /\ parsed = IdleParse
    /\ extract = IdleExtract
    /\ normalize = IdleNormalize
    /\ \E query \in DistinctSeqs(TemporalPhrases, MaxClauses), now \in ReferenceDates :
         resolve = [IdleResolve EXCEPT !.pc = "iso", !.query = query, !.now = now]

\* a result is kept, and the next strategy is consulted all the same
ConsultKeepsGoing(strategy, outcome, next) ==
    /\ resolve.pc = strategy
    /\ resolve' = IF outcome.kind = "none"
                  THEN [resolve EXCEPT !.pc = next, !.consulted = Append(@, strategy)]
                  ELSE [resolve EXCEPT !.pc = next, !.consulted = Append(@, strategy),
                                       !.result = outcome]
    /\ UNCHANGED <<engine, extract, normalize, parsed>>

\* `if result := self._try_...(...): return result`: a result is returned, an
\* exception leaves resolve_date_range, and None moves on to the next strategy
Consult(strategy, outcome, next) ==
    /\ resolve.pc = strategy
    /\ resolve' = IF outcome.kind = "none"
                  THEN [resolve EXCEPT !.pc = next, !.consulted = Append(@, strategy)]
                  ELSE [resolve EXCEPT !.pc = "done", !.consulted = Append(@, strategy),
                                       !.result = outcome]
    /\ UNCHANGED <<engine, extract, normalize, parsed>>

ResolveIso == Consult("iso", TryIsoDate(resolve.query, resolve.now), "slash")

ResolveSlash == Consult("slash", TrySlashDate(resolve.query), "textual")

ResolveTextual == Consult("textual", TryTextualDate(resolve.query, resolve.now), "month")

ResolveMonthOnly == Consult("month", TryMonthOnly(resolve.query, resolve.now), "relative")

ResolveRelative ==
    Consult("relative", TryRelativeTimeframe(resolve.query, resolve.now), "named")

ResolveNamedPeriod ==
    Consult("named", TryNamedPeriod(resolve.query, resolve.now), "contextual")

ResolveContextual ==
    \E outcome \in TryContextualRange(resolve.query, resolve.now) :
        Consult("contextual", outcome, "llm")

ResolveLLM ==
    \E reply \in DateReplies :
        Consult("llm", TryLLMExtraction(reply, resolve.now), "empty")

\* return {}
ResolveEmpty ==
    /\ resolve.pc = "empty"
    /\ resolve' = [resolve EXCEPT !.pc = "done", !.result = [kind |-> "empty"]]
    /\ UNCHANGED <<engine, extract, normalize, parsed>>

\* QueryParser.parse reads the date constraint of the same query with
\* _extract_dates, which never calls the resolver: its clock is the system
\* clock or the environment variable, whatever reference the resolver holds
ParserExtractDates ==
    /\ resolve.pc = "done"
    /\ resolve.intent = <<>>
    /\ \E clock \in ReferenceDates, offset \in {"", "+00:00"} :
         resolve' = [resolve EXCEPT !.intent =
                        <<[now |-> clock,
                           dates |-> ExtractDates(resolve.query, clock, offset)]>>]
    /\ UNCHANGED <<engine, extract, normalize, parsed>>

NextResolver ==
    \/ ResolveIso
    \/ ResolveSlash
    \/ ResolveTextual
    \/ ResolveMonthOnly
    \/ ResolveRelative
    \/ ResolveNamedPeriod
    \/ ResolveContextual
    \/ ResolveLLM
    \/ ResolveEmpty
    \/ ParserExtractDates

SpecResolver == InitResolver /\ [][NextResolver]_vars

\* -------------------------------------- extract_merchants, called directly
InitMatcher ==
    /\ resolverAttached = FALSE
    /\ generatorDouble = FALSE
    /\ callers = {}
    /\ workload = {}
    /\ index = {}
    /\ refDate = Now
    /\ local = [t \in Invocations |-> IdleFrame]
    /\ hist = [t \in Invocations |-> NoHistory]
    /\ refBefore = Now
    /\ auditArgs = NoAuditArgs
    /\ auditRet = NotRun
    /\ parsed = IdleParse
    /\ resolve = IdleResolve
    /\ normalize = IdleNormalize
    /\ extract = IdleExtract

\* extract_merchants(query, indexed_merchants): the corpus learns the names
\* handed in and is kept from call to call
ExtractBegin ==
    /\ extract.pc \in {"idle", "done"}
    /\ \E query \in DOMAIN Tokenize, indexed_merchants \in IndexedMerchants :
         extract' = [IdleExtract EXCEPT !.pc = "prepositions", !.query = query,
                                        !.corpus = extract.corpus \cup indexed_merchants]
    /\ UNCHANGED <<engine, resolve, normalize, parsed>>

\* what one strategy adds to the list
Extend(strategy, found) ==
    [extract EXCEPT !.merchants = @ \o found, !.ran = Append(@, strategy),
                    !.took = IF found = <<>> THEN @ ELSE @ \cup {strategy}]

\* Strategy 1
ExtractPrepositions ==
    /\ extract.pc = "prepositions"
    /\ extract' = [Extend("prepositions", ExtractViaPrepositions[extract.query])
                     EXCEPT !.pc = "fuzzy"]
    /\ UNCHANGED <<engine, resolve, normalize, parsed>>

\* Strategy 2: if not merchants and self._merchant_corpus
ExtractFuzzy ==
    /\ extract.pc = "fuzzy"
    /\ \/ /\ extract.merchants = <<>> /\ extract.corpus # {}
          /\ \E found \in ExtractViaFuzzyMatch(extract.query, extract.corpus) :
               extract' = [Extend("fuzzy", found) EXCEPT !.pc = "llm"]
       \/ /\ ~(extract.merchants = <<>> /\ extract.corpus # {})
          /\ extract' = [extract EXCEPT !.pc = "llm"]
    /\ UNCHANGED <<engine, resolve, normalize, parsed>>

\* the LLM is asked whatever the earlier strategies found
ExtractLLMAlways ==
    /\ extract.pc = "llm"
    /\ \E reply \in MerchantReplies :
         extract' = [Extend("llm", ExtractViaLLM(reply)) EXCEPT !.pc = "return"]
    /\ UNCHANGED <<engine, resolve, normalize, parsed>>

\* Strategy 3: if not merchants
ExtractLLM ==
    /\ extract.pc = "llm"
    /\ \/ /\ extract.merchants = <<>>
          /\ \E reply \in MerchantReplies :
               extract' = [Extend("llm", ExtractViaLLM(reply)) EXCEPT !.pc = "return"]
       \/ /\ extract.merchants # <<>>
          /\ extract' = [extract EXCEPT !.pc = "return"]
    /\ UNCHANGED <<engine, resolve, normalize, parsed>>

\* return list(set(self._normalize_list(merchants)))
ExtractReturn ==
    /\ extract.pc = "return"
    /\ extract' = [extract EXCEPT !.pc = "done",
                                  !.result = {NormalizeList(extract.merchants, {})[i] :
                                                i \in 1..Len(NormalizeList(extract.merchants, {}))}]
    /\ UNCHANGED <<engine, resolve, normalize, parsed>>

NextMatcher ==
    \/ ExtractBegin
    \/ ExtractPrepositions
    \/ ExtractFuzzy
    \/ ExtractLLM
    \/ ExtractReturn

SpecMatcher == InitMatcher /\ [][NextMatcher]_vars

\* -------------------------------- normalize_merchant_name, called directly
InitNormalize ==
    /\ resolverAttached = FALSE
    /\ generatorDouble = FALSE
    /\ callers = {}
    /\ workload = {}
    /\ index = {}
    /\ refDate = Now
    /\ local = [t \in Invocations |-> IdleFrame]
    /\ hist = [t \in Invocations |-> NoHistory]
    /\ refBefore = Now
    /\ auditArgs = NoAuditArgs
    /\ auditRet = NotRun
    /\ parsed = IdleParse
    /\ resolve = IdleResolve
    /\ extract = IdleExtract
    /\ \E names \in (DOMAIN Spelling) \X (DOMAIN Spelling) :
         normalize = [IdleNormalize EXCEPT !.pc = "called", !.names = names]

\* the two names are normalized, as the filter and as the chunker normalize them
RunNormalize ==
    /\ normalize.pc = "called"
    /\ normalize' = [normalize EXCEPT !.pc = "done",
                                      !.forms = <<NormalizeMerchantName(normalize.names[1]),
                                                  NormalizeMerchantName(normalize.names[2])>>,
                                      !.indexed =
                                          <<ChunkerNormalizeMerchantName(normalize.names[1]),
                                            ChunkerNormalizeMerchantName(normalize.names[2])>>]
    /\ UNCHANGED <<engine, resolve, extract, parsed>>

NextNormalize == RunNormalize

SpecNormalize == InitNormalize /\ [][NextNormalize]_vars

\* --------------------------------------------- parse, called directly
InitParser ==
    /\ resolverAttached = FALSE
    /\ generatorDouble = FALSE
    /\ callers = {}
    /\ workload = {}
    /\ index = {}
    /\ refDate = Now
    /\ local = [t \in Invocations |-> IdleFrame]
    /\ hist = [t \in Invocations |-> NoHistory]
    /\ refBefore = Now
    /\ auditArgs = NoAuditArgs
    /\ auditRet = NotRun
    /\ resolve = IdleResolve
    /\ extract = IdleExtract
    /\ normalize = IdleNormalize
    /\ \E q \in {s \in SUBSET (Phrases \cup {"list all", "at Walmart", "under $20",
                                             "with tip", "delivery fee or tip", "refund"}) :
                    Cardinality(s) <= MaxPhrases + 1} :
         ~DateRaises(q) /\ parsed = [IdleParse EXCEPT !.pc = "rules", !.query = q]

\* 1. Base Regex Extraction: what parse() holds before the enrichment, which
\* is what it returns when _get_llm_parsing hands back {}
ParseRules ==
    /\ parsed.pc = "rules"
    /\ LET params == Parse(parsed.query, [aggregation |-> None, date_range |-> None,
                                          merchants |-> {}])
       IN parsed' = [parsed EXCEPT !.pc = "enrich", !.rules = params, !.params = params]
    /\ UNCHANGED <<engine, resolve, extract, normalize>>

\* 2. LLM Enrichment: _get_llm_parsing is called when merchants or date_range
\* is empty
ParseLLM ==
    /\ parsed.pc = "enrich"
    /\ parsed.rules.merchants = {} \/ parsed.rules.date_range = None
    /\ \E llm \in LLMReplies :
         parsed' = [parsed EXCEPT !.pc = "return", !.called = TRUE, !.reply = <<llm>>,
                                  !.params = Parse(parsed.query, llm)]
    /\ UNCHANGED <<engine, resolve, extract, normalize>>

\* return params, and the filter the engine builds from them
ParseReturn ==
    /\ \/ parsed.pc = "return"
       \/ /\ parsed.pc = "enrich"
          /\ ~(parsed.rules.merchants = {} \/ parsed.rules.date_range = None)
    /\ parsed' = [parsed EXCEPT !.pc = "done",
                                !.filters = IF parsed.params.date_range = "list"
                                            THEN NoFilters
                                            ELSE BuildSearchFilters(parsed.params)]
    /\ UNCHANGED <<engine, resolve, extract, normalize>>

NextParser == ParseRules \/ ParseLLM \/ ParseReturn

SpecParser == InitParser /\ [][NextParser]_vars

\* ----------------------------------------------------------------- claims
NotFoundAnswer == "I couldn't find any receipts matching those criteria."

\* C1: query() never raises to its caller; when any step inside it fails it
\* returns the error result: query_type "error", confidence 0, no receipts
\* and no items, never a partly filled result.
QueryNeverRaises ==
    \A t \in callers :
        /\ local[t].raised = None
        /\ local[t].pc = "done" => local[t].result.answer # None
        /\ (local[t].pc = "done" /\ hist[t].failedAt # None) =>
              /\ local[t].result.query_type = "error"
              /\ local[t].result.confidence = 0
              /\ local[t].result.receipts = <<>>
              /\ local[t].result.items = <<>>

\* a call that failed at result assembly, with records retrieved and an
\* answer generated, has returned
FailedLateReturnsError ==
    \E t \in callers :
        /\ local[t].pc = "done"
        /\ hist[t].failedAt = "assembly"
        /\ local[t].search_results # <<>>
        /\ local[t].result.query_type = "error"

\* C2: when a call of query() has returned, the resolver's reference date is
\* the one it had when the call was entered, in every outcome.
ReferenceRestoredAtReturn ==
    \A t \in callers : local[t].pc = "done" => refDate = hist[t].refAtEntry

\* C3: once two interleaved calls of query(), each having saved, installed,
\* parsed and restored, have both returned, the reference date is the one it
\* had before either began.
ReferenceRestoredWhenQuiet ==
    (\A t \in callers :
        local[t].pc = "done" /\ hist[t].installed /\ hist[t].restored)
        => refDate = refBefore

\* C4: when retrieval returns zero results the call returns at once with the
\* fixed "couldn't find" answer and confidence 0, and neither the audit nor
\* the generation is invoked in that call.
ZeroResultsFailFast ==
    \A t \in callers :
        (hist[t].searchCalls > 0 /\ Len(local[t].search_results) = 0) =>
            /\ local[t].pc = "done"
            /\ local[t].result.answer = NotFoundAnswer
            /\ local[t].result.confidence = 0
            /\ ~hist[t].auditRan
            /\ local[t].audit_result = EmptyAudit
            /\ hist[t].genCalls = 0

\* the index answered with no match to a query that asks for an aggregation
ZeroResultsReturned ==
    \E t \in callers :
        /\ local[t].pc = "done"
        /\ hist[t].searchCalls = 1
        /\ ~hist[t].searchFailed
        /\ Len(local[t].search_results) = 0
        /\ local[t].params.aggregation # None
        /\ local[t].result.answer = NotFoundAnswer

\* the sum of f over the finite set S
RECURSIVE SumFn(_, _)
SumFn(f, S) ==
    IF S = {} THEN 0
    ELSE LET x == CHOOSE y \in S : TRUE
         IN f[x] + SumFn(f, S \ {x})

EvidenceReceipts(results) == {results[i].receipt_id : i \in 1..Len(results)}

\* C5: with basis receipts every distinct receipt_id of the evidence adds its
\* receipt level value exactly once, whatever the number and order of its
\* records: count is the number of distinct receipts and the sum is one
\* value per receipt (r1 14.84, r1 14.84, r2 10.00 give 2 and 24.84).
ReceiptContributesOnce ==
    LET res == auditArgs.results
        rids == EvidenceReceipts(res)
        field == MetricField(auditArgs.metric)
        summarised == \A rid \in rids : \E i \in 1..Len(res) :
                          res[i].receipt_id = rid /\ res[i].chunk_type = "receipt_summary"
    IN (/\ auditRet # NotRun
        /\ auditArgs.aggregation # None
        /\ auditArgs.sum_basis = "receipts"
        /\ auditArgs.metric \in {"total", "tax", "subtotal"}
        /\ res # <<>>
        /\ summarised) =>
           /\ auditRet.kind = "dict"
           /\ auditRet.count = Cardinality(rids)
           /\ auditArgs.aggregation = "sum" =>
                 /\ auditRet.num = SumFn([rid \in rids |-> FieldOf(ReceiptRow(rid), field)], rids)
                 /\ auditRet.den = 1

\* the positions of the evidence whose value the audit selects: the first
\* record of each receipt when it carries the metric's field, or the
\* item_detail records that carry a price
SelectedPositions(args) ==
    LET res == args.results
        field == MetricField(args.metric)
    IN IF args.sum_basis = "receipts"
       THEN {i \in 1..Len(res) :
                /\ \A j \in 1..(i - 1) : res[j].receipt_id # res[i].receipt_id
                /\ field \in res[i].keys}
       ELSE {i \in 1..Len(res) :
                /\ args.sum_basis = "items"
                /\ res[i].chunk_type = "item_detail"
                /\ "item_price" \in res[i].keys}

\* C6: over the value list selected by metric and sum_basis the audit gives
\* count = number of values, and value = their sum for sum, the sum divided
\* by count for average, count itself for count.
AuditArithmetic ==
    LET res == auditArgs.results
        pos == SelectedPositions(auditArgs)
        field == IF auditArgs.sum_basis = "receipts"
                 THEN MetricField(auditArgs.metric) ELSE "item_price"
        total == SumFn([i \in pos |-> FieldOf(res[i], field)], pos)
    IN auditRet # NotRun =>
         /\ (auditArgs.aggregation # None /\ pos # {}) => auditRet.kind = "dict"
         /\ auditRet.kind = "dict" =>
              /\ auditRet.count = Cardinality(pos)
              /\ auditArgs.aggregation = "sum" =>
                    auditRet.num = total /\ auditRet.den = 1
              /\ auditArgs.aggregation = "average" =>
                    auditRet.num * auditRet.count = total * auditRet.den
              /\ auditArgs.aggregation = "count" =>
                    auditRet.num = auditRet.count /\ auditRet.den = 1

\* an average over the totals of two receipts, retrieved in three records
AverageOfTwoReceipts ==
    /\ auditRet.kind = "dict"
    /\ auditArgs.aggregation = "average"
    /\ auditArgs.sum_basis = "receipts"
    /\ Len(auditArgs.results) = 3
    /\ auditRet.count = 2
    /\ auditRet.num = 2484
    /\ auditRet.den = 2

\* C7: whenever the Intent carries an aggregation and records were
\* retrieved, the audit has run by the time the generation is called, for
\* every query_type.
AuditPrecedesGeneration ==
    \A t \in callers :
        (hist[t].genCalls > 0 /\ local[t].params.aggregation # None) => hist[t].auditRan

\* C8: when the audit has nothing to compute it is omitted, and the query
\* still completes as a normal result that carries the generated answer.
AuditOmittedStillAnswers ==
    \A t \in callers :
        (/\ local[t].pc = "done"
         /\ local[t].audit_result.kind = "none"
         /\ local[t].answer = "generated") =>
            /\ local[t].result.query_type # "error"
            /\ local[t].result.answer = "generated"

\* C9: a failure inside hybrid_search counts as zero results, so the call
\* ends with the "couldn't find" result, confidence 0 and the parsed
\* query_type, not the error result; a failure while fetching the latest
\* transaction date installs no override and the call goes on with the
\* reference date it found.
RetrievalFailureIsZeroResults ==
    \A t \in callers :
        /\ hist[t].searchFailed =>
              /\ local[t].search_results = <<>>
              /\ local[t].pc = "done"
              /\ local[t].result.answer = NotFoundAnswer
              /\ local[t].result.confidence = 0
              /\ local[t].result.query_type = local[t].params.query_type
              /\ local[t].result.query_type # "error"
              /\ hist[t].failedAt = None
        /\ hist[t].fetchFailed =>
              /\ local[t].latest_date = NoDate
              /\ ~hist[t].installed
              /\ hist[t].failedAt # "resolver"
              /\ refDate = hist[t].refAtEntry

\* both capabilities failed in one call over a non-empty index
BothCapabilitiesFailed ==
    \E t \in callers :
        /\ index # {}
        /\ hist[t].fetchFailed
        /\ hist[t].searchFailed
        /\ local[t].pc = "done"
        /\ local[t].result.answer = NotFoundAnswer

\* C10: a query whose retrieval returns at least one record and whose
\* components do not fail calls hybrid_search once and the generation once
\* and returns a non-error result: the generator's answer, and receipts
\* taken from the retrieved metadata.
OrchestrationSucceeds ==
    \A t \in callers :
        (/\ local[t].pc = "done"
         /\ Len(local[t].search_results) >= 1
         /\ ~hist[t].fetchFailed
         /\ ~hist[t].searchFailed) =>
            /\ hist[t].searchCalls = 1
            /\ hist[t].genCalls = 1
            /\ local[t].result.query_type # "error"
            /\ local[t].result.answer = "generated"
            /\ local[t].result.receipts # <<>>
            /\ local[t].result.receipts[1].merchant_name
                   = local[t].search_results[1].merchant_name

\* ---- the temporal resolver
LastConsulted == resolve.consulted[Len(resolve.consulted)]

Resolved == resolve.pc = "done" /\ resolve.result.kind = "range"

\* what strategy number i may hand back for the call in progress
StrategyOutcomes(i) ==
    CASE i = 1 -> {TryIsoDate(resolve.query, resolve.now)}
      [] i = 2 -> {TrySlashDate(resolve.query)}
      [] i = 3 -> {TryTextualDate(resolve.query, resolve.now)}
      [] i = 4 -> {TryMonthOnly(resolve.query, resolve.now)}
      [] i = 5 -> {TryRelativeTimeframe(resolve.query, resolve.now)}
      [] i = 6 -> {TryNamedPeriod(resolve.query, resolve.now)}
      [] i = 7 -> TryContextualRange(resolve.query, resolve.now)
      [] i = 8 -> {TryLLMExtraction(reply, resolve.now) : reply \in DateReplies}

\* C11: the strategies are consulted in the order ISO, slash, textual, month
\* only, relative, named period, contextual, LLM; the call returns what the
\* first matching strategy gave and consults none after it; the LLM is
\* consulted only when the seven rule based strategies gave nothing.
FirstStrategyWins ==
    LET k == Len(resolve.consulted)
    IN /\ k <= Len(StrategyOrder)
       /\ resolve.consulted = SubSeq(StrategyOrder, 1, k)
       /\ \A i \in 1..(k - 1) : NoMatch \in StrategyOutcomes(i)
       /\ resolve.pc = "done" /\ resolve.result.kind # "empty"
            => resolve.result \in StrategyOutcomes(k)
       /\ resolve.pc = "done" /\ resolve.result.kind = "empty"
            => k = Len(StrategyOrder) /\ NoMatch \in StrategyOutcomes(k)

LlmFallbackAnswered ==
    /\ Resolved
    /\ LastConsulted = "llm"
    /\ Len(resolve.consulted) = 8

\* C12: resolve_date_range never raises: every call ends with a date
\* constraint or with the empty result.
ResolverNeverRaises ==
    resolve.pc = "done" => resolve.result.kind \in {"range", "empty"}

\* the range that is one whole day
WholeDay(year, month, day) ==
    [kind |-> "range",
     start |-> [date |-> <<year, month, day>>, time |-> <<0, 0, 0>>,
                fraction |-> <<>>, offset |-> "+00:00"],
     end |-> [date |-> <<year, month, day>>, time |-> <<23, 59, 59>>,
              fraction |-> <<999999>>, offset |-> "+00:00"]]

\* the day an absolute date of the query names
NamedDay ==
    LET iso == FirstMatch(resolve.query, Patterns.iso)
        slash == FirstMatch(resolve.query, Patterns.slash)
        textual == FirstMatch(resolve.query, Patterns.textual)
        month == MONTHS[textual.month_name]
    IN CASE LastConsulted = "iso" -> <<iso.year, iso.month, iso.day>>
         [] LastConsulted = "slash" ->
              <<IF slash.year < 100 THEN 2000 + slash.year ELSE slash.year,
                slash.month, slash.day>>
         [] LastConsulted = "textual" ->
              <<IF textual.year_str # <<>> THEN textual.year_str[1]
                ELSE IF month > resolve.now.month THEN resolve.now.year - 1
                ELSE resolve.now.year,
                month, textual.day>>

\* C13: a query answered by the ISO, slash or textual strategy resolves to
\* the named day, from 00:00:00.000000 to 23:59:59.999999 UTC; a textual date
\* without a year takes the reference year, or the year before when its month
\* is after the reference month.
AbsoluteDateIsOneDay ==
    Resolved /\ LastConsulted \in {"iso", "slash", "textual"}
        => resolve.result = WholeDay(NamedDay[1], NamedDay[2], NamedDay[3])

TextualDateOfLastYear ==
    /\ Resolved
    /\ LastConsulted = "textual"
    /\ FirstMatch(resolve.query, Patterns.textual).year_str = <<>>
    /\ resolve.result.start.date[1] = resolve.now.year - 1

\* C14: every range the resolver produces starts at 00:00:00.000000 and ends
\* at 23:59:59.999999 UTC, whatever the strategy and the reference time.
RangeCoversWholeDays ==
    Resolved =>
        /\ resolve.result.start.time = <<0, 0, 0>>
        /\ resolve.result.start.fraction = <<>>
        /\ resolve.result.end.time = <<23, 59, 59>>
        /\ resolve.result.end.fraction = <<999999>>
        /\ resolve.result.start.offset = "+00:00"
        /\ resolve.result.end.offset = "+00:00"

\* the months a query names
NamedMonths == {MONTHS[w] : w \in MonthsNamed(resolve.query)}

\* C15: a query that names a month, and no day, resolves to that month of
\* the 20YY year it holds; without such a year it resolves to the range from
\* the first instant of the month five years before the reference year to
\* the last instant of the month in the reference year.
MonthOnlyRange ==
    Resolved /\ LastConsulted = "month" /\ Cardinality(NamedMonths) = 1
        => LET month == CHOOSE m \in NamedMonths : TRUE
               given == Found(resolve.query, Patterns.year)
               first_year == IF given THEN FirstMatch(resolve.query, Patterns.year)
                             ELSE resolve.now.year - 5
               last_year == IF given THEN FirstMatch(resolve.query, Patterns.year)
                            ELSE resolve.now.year
           IN /\ resolve.result.start = WholeDay(first_year, month, 1).start
              /\ resolve.result.end =
                   WholeDay(last_year, month, DaysInMonth(last_year, month)).end

DecemberOverSixYears ==
    /\ Resolved
    /\ LastConsulted = "month"
    /\ NamedMonths = {12}
    /\ ~Found(resolve.query, Patterns.year)
    /\ resolve.result.end.date = <<resolve.now.year, 12, 31>>
    /\ resolve.result.start.date = <<resolve.now.year - 5, 12, 1>>

\* the days from the first date to the second
DaysBetween(from, to) ==
    ToOrdinal(to[1], to[2], to[3]) - ToOrdinal(from[1], from[2], from[3])

LastWeekAnswered ==
    /\ Resolved
    /\ LastConsulted = "relative"
    /\ In("last week", resolve.query)
    /\ ~In("today", resolve.query)
    /\ ~In("yesterday", resolve.query)

\* C16: 'last week' is the Monday to Sunday week before the week of the
\* reference date: it starts at 00:00:00 of the Monday 7 + weekday(reference)
\* days before the reference and ends at 23:59:59.999999 of the Sunday after
\* (2024-01-08 to 2024-01-14 for the reference 2024-01-15).
LastWeekIsPreviousCalendarWeek ==
    LastWeekAnswered =>
        LET start == resolve.result.start.date
            end == resolve.result.end.date
            today == <<resolve.now.year, resolve.now.month, resolve.now.day>>
        IN /\ resolve.result.start = WholeDay(start[1], start[2], start[3]).start
           /\ resolve.result.end = WholeDay(end[1], end[2], end[3]).end
           /\ Weekday(Date(start[1], start[2], start[3])) = 0
           /\ DaysBetween(start, today) = 7 + Weekday(resolve.now)
           /\ DaysBetween(start, end) = 6
           /\ today = <<2024, 1, 15>> => start = <<2024, 1, 8>> /\ end = <<2024, 1, 14>>

LastWeekOfAMonday ==
    /\ LastWeekAnswered
    /\ resolve.now = Date(2024, 1, 15)
    /\ resolve.result.start.date = <<2024, 1, 8>>

\* the holidays a phrase names
HolidayPhrases ==
    ("thanksgiving" :> "thanksgiving") @@ ("thanksgiving 2023" :> "thanksgiving")
    @@ ("christmas" :> "christmas") @@ ("fourth of july" :> "fourth of july")

\* the civil date a number of days after a date
DayAfter(date, days) ==
    LET dt == PlusDays(Date(date[1], date[2], date[3]), days)
    IN <<dt.year, dt.month, dt.day>>

\* the years the holiday table is checked for
HolidayYears == 2000..2040

\* C17: Thanksgiving of a year is the fourth Thursday of its November
\* (2023-11-23), and a query of a holiday and 'week before' resolves to the
\* seven days from the holiday - 7 at 00:00:00.000000 to the holiday - 1 at
\* 23:59:59.999999.
WeekBeforeHoliday ==
    /\ \A year \in HolidayYears :
         LET thanksgiving == ThanksgivingDate(year)
         IN /\ thanksgiving.month = 11
            /\ thanksgiving.day \in 22..28
            /\ Weekday(thanksgiving) = 3
    /\ ThanksgivingDate(2023) = Date(2023, 11, 23)
    /\ \A h \in DOMAIN HolidayPhrases :
         resolve.pc = "done" /\ resolve.query \in {<<"week before", h>>, <<h, "week before">>}
           => LET year == IF Found(resolve.query, Patterns.year)
                          THEN FirstMatch(resolve.query, Patterns.year)
                          ELSE resolve.now.year
                  holiday == HolidayDate(HolidayPhrases[h], year)
                  day == <<holiday.year, holiday.month, holiday.day>>
                  first == DayAfter(day, -7)
                  last == DayAfter(day, -1)
              IN /\ resolve.result.kind = "range"
                 /\ resolve.result.start = WholeDay(first[1], first[2], first[3]).start
                 /\ resolve.result.end = WholeDay(last[1], last[2], last[3]).end

\* ---- the merchant matcher
\* how often a strategy has run in the call in progress
Runs(strategy) == Cardinality({i \in 1..Len(extract.ran) : extract.ran[i] = strategy})

\* C18: extract_merchants takes the first strategy that finds a merchant:
\* fuzzy matching runs only when the prepositions found nothing and the
\* corpus is not empty, the LLM is called only when both found nothing, and
\* then exactly once; the answer never mixes the finds of two strategies.
FirstNonEmptyStrategyOnly ==
    /\ Runs("prepositions") <= 1 /\ Runs("fuzzy") <= 1 /\ Runs("llm") <= 1
    /\ Runs("fuzzy") = 1
         => ExtractViaPrepositions[extract.query] = <<>> /\ extract.corpus # {}
    /\ Runs("llm") = 1 => extract.took \subseteq {"llm"}
    /\ extract.pc \in {"return", "done"}
         => /\ Runs("prepositions") = 1
            /\ Runs("llm") = 1 <=> extract.took \cap {"prepositions", "fuzzy"} = {}
            /\ Runs("fuzzy") = 1
                 <=> ExtractViaPrepositions[extract.query] = <<>> /\ extract.corpus # {}
    /\ Cardinality(extract.took) <= 1
    /\ extract.pc = "done" /\ extract.took = {} => extract.result = {}

LlmNamedTheMerchant ==
    /\ extract.pc = "done"
    /\ extract.query = "Find my last pharmacy receipt"
    /\ extract.corpus = {}
    /\ extract.ran = <<"prepositions", "llm">>
    /\ extract.result = {"CVS"}

\* ---- merchant name forms
\* names and the forms the documentation and the tests give for them
ExpectedForms ==
    ("Target Store" :> "target") @@ ("target" :> "target") @@ ("Target" :> "target")
    @@ ("Walmart Supercenter" :> "walmart supercenter") @@ ("WALMART" :> "walmart")
    @@ ("Target Store Inc" :> "target store") @@ ("Target Inc." :> "target")
    @@ ("Joe's Cafe" :> "joes") @@ ("Store" :> "store") @@ ("Bookstore" :> "bookstore")
    @@ ("CVS Pharmacy" :> "cvs") @@ ("Coffee Shop" :> "coffee")
    @@ ("Whole Foods Market" :> "whole foods") @@ ("Acme Corp" :> "acme")
    @@ ("Acme LLC" :> "acme") @@ ("Acme Ltd" :> "acme")
    @@ ("Acme Restaurant" :> "acme") @@ ("Acme Coffee" :> "acme")
    @@ (" Target  Store " :> "target") @@ ("Wal-Mart" :> "walmart") @@ ("" :> "")

\* C19: normalize_merchant_name lowercases, drops what is not a letter, a
\* digit or a space, and strips one trailing suffix of its list; 'Target
\* Store' and 'target' have the same form, 'Walmart Supercenter' and
\* 'WALMART' do not.
NormalizedFormsDecideSameness ==
    normalize.pc = "done" =>
        /\ \A i \in 1..2 :
             LET name == normalize.names[i]
                 chars == NormalizedCharacters(name)
             IN /\ name \in DOMAIN ExpectedForms => normalize.forms[i] = ExpectedForms[name]
                /\ \A k \in 1..Len(chars) : Kept(chars[k])
                /\ chars # <<>> => chars[1] # " " /\ chars[Len(chars)] # " "
                /\ Join(chars) = normalize.forms[i]
        /\ normalize.names = <<"Target Store", "target">>
             => normalize.forms[1] = normalize.forms[2]
        /\ normalize.names = <<"Walmart Supercenter", "WALMART">>
             => normalize.forms[1] # normalize.forms[2]

TargetStoreIsTarget ==
    /\ normalize.pc = "done"
    /\ normalize.names = <<"Target Store", "target">>
    /\ normalize.forms = <<"target", "target">>

\* ---- retrieval filters
\* the invocations whose filter has been built
FiltersBuilt(t) == t \in callers /\ local[t].pc \in {"search", "audit", "generate", "assemble"}

\* the normalized forms of the merchants the parser of the model can name
TargetForms == ("Target" :> "target") @@ ("target" :> "target") @@ ("CVS" :> "cvs")

\* C20: the retrieval filter holds merchant_name_norm = the normalized name
\* when the Intent has one merchant, an $in over the normalized names when it
\* has several, and no merchant predicate when it has none; a query for
\* Target receipts gives merchant_name_norm = 'target'.
MerchantFilterIsNormalized ==
    \A t \in Invocations :
        FiltersBuilt(t) =>
            LET merchants == local[t].params.merchants
                predicate == local[t].filters.merchant_name_norm
            IN /\ merchants = {} => predicate = NoPredicate
               /\ Cardinality(merchants) = 1
                    => predicate = [op |-> "eq",
                                    values |-> {TargetForms[m] : m \in merchants}]
               /\ Cardinality(merchants) > 1
                    => predicate = [op |-> "$in",
                                    values |-> {TargetForms[m] : m \in merchants}]
               /\ local[t].query_text = {"show me", "Target receipts"}
                    => predicate = [op |-> "eq", values |-> {"target"}]

TargetReceiptsFiltered ==
    \E t \in Invocations :
        /\ FiltersBuilt(t)
        /\ local[t].query_text = {"show me", "Target receipts"}
        /\ local[t].filters.merchant_name_norm = [op |-> "eq", values |-> {"target"}]

\* ---- the query parser
\* C21: parse() calls the language model only when the rules left merchants
\* or date_range empty, and the merchants, date_range and aggregation the
\* rules extracted are in the Intent unchanged whatever the model replies;
\* when the call fails the Intent is what the rules extracted.
LlmFallbackNeverOverwrites ==
    LET rules == parsed.rules
        intent == parsed.params
    IN /\ parsed.called => rules.merchants = {} \/ rules.date_range = None
       /\ parsed.pc \in {"return", "done"} =>
            /\ parsed.called <=> (rules.merchants = {} \/ rules.date_range = None)
            /\ rules.merchants = ExtractMerchants(parsed.query)
            /\ rules.merchants # {} => intent.merchants = rules.merchants
            /\ rules.date_range # None => intent.date_range = rules.date_range
            /\ rules.aggregation # None => intent.aggregation = rules.aggregation
            /\ ~parsed.called => intent = rules
            /\ parsed.reply = <<[aggregation |-> None, date_range |-> None,
                                 merchants |-> {}]>>
                 => intent = rules

RulesKeptBesideLlmDate ==
    /\ parsed.pc = "done"
    /\ parsed.query = {"at Target", "how much"}
    /\ parsed.called
    /\ parsed.reply = <<[aggregation |-> "count", date_range |-> "dict",
                         merchants |-> {"CVS"}]>>
    /\ parsed.params.merchants = {"Target", "target"}
    /\ parsed.params.aggregation = "sum"
    /\ parsed.params.date_range = "dict"

MerchantsDeduplicated ==
    parsed.pc \in {"return", "done"} =>
        /\ \A a, b \in parsed.params.merchants :
             a # b => NormalizeMerchantName(a) # NormalizeMerchantName(b)
        /\ "at Walmart" \in parsed.query => parsed.params.merchants = {"Walmart"}

FilterCarriesEveryPredicate ==
    (parsed.pc = "done" /\ parsed.params.date_range # "list") =>
        /\ (parsed.params.min_amount # <<>> \/ parsed.params.max_amount # <<>>)
             => MetricField(parsed.params.metric) \in parsed.filters.keys
        /\ parsed.params.flags \subseteq parsed.filters.keys
        /\ (parsed.params.feature_any_of # {} /\ parsed.params.categories # {})
             => /\ "$and" \in parsed.filters.keys
                /\ parsed.filters.feature_or = parsed.params.feature_any_of

\* C26: the receipts list of an assembled result has one entry per distinct
\* receipt_id of the retrieved records, an entry takes its fields from the
\* receipt_summary record of its receipt when that record was retrieved,
\* whatever the order of the records, and the items list has one entry per
\* item_detail record and no other entry.
ReceiptsPreferCompleteRecord ==
    \A t \in Invocations :
        (t \in callers /\ local[t].pc = "done" /\ local[t].result.receipts # <<>>) =>
            LET res == local[t].search_results
                rec == local[t].result.receipts
                items == local[t].result.items
            IN /\ \A i, j \in DOMAIN rec :
                      rec[i].receipt_id = rec[j].receipt_id => i = j
               /\ {rec[i].receipt_id : i \in DOMAIN rec}
                      = {res[k].receipt_id : k \in DOMAIN res}
               /\ \A i \in DOMAIN rec : \A k \in DOMAIN res :
                      (res[k].receipt_id = rec[i].receipt_id
                          /\ res[k].chunk_type = "receipt_summary")
                      => /\ rec[i].has_total
                         /\ rec[i].total_amount = res[k].total_amount
               /\ Len(items)
                      = Cardinality({k \in DOMAIN res : res[k].chunk_type = "item_detail"})

\* C28: every chunk written for a receipt, of every chunk type, carries the
\* receipt's id, its merchant name, its transaction date and timestamp, and a
\* total_amount key.
EveryChunkCarriesReceiptFields ==
    \A m \in index :
        /\ m.receipt_id \in ReceiptIds
        /\ m.merchant_name = ReceiptRow(m.receipt_id).merchant_name
        /\ m.transaction_ts = ReceiptRow(m.receipt_id).transaction_ts
        /\ HasKey(m, "total_amount")

\* ---- normalization
\* C29: for every merchant name, the merchant_name_norm the chunker writes at
\* index time equals the key the retrieval filter holds for the same name, so
\* a filter built from a name matches the chunks indexed under that name.
IndexKeyEqualsFilterKey ==
    normalize.pc = "done" =>
        \A i \in 1..2 : normalize.indexed[i] = normalize.forms[i]

\* ---- the temporal resolver
\* C30: every date range the resolver returns has its start no later than its
\* end, for every query and reference date, 'since <date>' with a date after
\* the reference and 'between <A> and <B>' with A after B included.
RangeStartsBeforeItEnds ==
    Resolved =>
        LET Key(iso) ==
                <<ToOrdinal(iso.date[1], iso.date[2], iso.date[3]),
                  iso.time[1] * 3600 + iso.time[2] * 60 + iso.time[3],
                  IF iso.fraction = <<>> THEN 0 ELSE iso.fraction[1]>>
            start == Key(resolve.result.start)
            end == Key(resolve.result.end)
        IN \/ start[1] < end[1]
           \/ start[1] = end[1] /\ start[2] < end[2]
           \/ start[1] = end[1] /\ start[2] = end[2] /\ start[3] <= end[3]

\* C27: the date constraint the parser puts in the Intent is the resolver's
\* answer for the same query and the same reference date, and the parser's
\* relative dates are computed from the reference the resolver holds.
ParserDatesAreResolverDates ==
    (resolve.pc = "done" /\ resolve.intent # <<>>) =>
        /\ resolve.intent[1].now = resolve.now
             => resolve.intent[1].dates = resolve.result
        /\ (\E p \in {"last week", "last month", "this week", "this month", "yesterday"} :
                In(p, resolve.query))
             => resolve.intent[1].now = resolve.now

====
